---------------------------- MODULE Spec2Model ----------------------------
(***************************************************************************)
(* A model of turtwig's DICOM loading pipeline (turtwig/data/dicom.py).    *)
(*                                                                         *)
(* A directory is the sequence of its files in file-listing order.  A file *)
(* is a record holding what the decoder (pydicom.dcmread) and the          *)
(* structure-set library (rt_utils) give for it.  A 3D array of shape      *)
(* (H, W, D) is a sequence of H rows, each a sequence of W columns, each a *)
(* sequence of D values; a 2D pixel array is a sequence of H rows of W     *)
(* values.  A string is the sequence of its characters.                    *)
(*                                                                         *)
(* A call's outcome is a record [kind, val]: kind "ok" with the returned   *)
(* value, kind "none" for a returned None, kind "raise" for an exception   *)
(* that leaves the function.                                               *)
(***************************************************************************)
EXTENDS Integers, Sequences, FiniteSets, TLC

VARIABLES
    dir,      \* the directory a single-directory call is applied to
    op,       \* the single-directory call made so far ("idle" before any)
    res,      \* the outcome of that call
    arr,      \* a 3D array the orientation transform is applied to
    arr0,     \* the array as it was before any transform
    flips,    \* how many times the transform has been applied to arr
    coll,     \* the collection directory: the kind of each entry, in os.listdir order
    mode,     \* which load_all_* pipeline was created ("idle" before any)
    pos,      \* how many entries the pipeline has pulled from the listing
    loaded,   \* the entries the per-entry loader was invoked on, in order
    out,      \* the elements the consumer has received, in order
    exc,      \* the entries whose exception reached the consumer
    last,     \* how the consumer's latest next() ended ("none" before any)
    tree,     \* every file under a directory tree, in os.walk order
    tree0,    \* the tree as it was before purge_dicom_dir
    purged,   \* how purge_dicom_dir ended ("idle" before the call)
    decoded,  \* the paths purge_dicom_dir called dicom.dcmread on, in order
    dataset,  \* the scans given to compute_dataset_stats, in iteration order
    stats,    \* the outcome of compute_dataset_stats
    pfiles,   \* the paths a running purge_dicom_dir has still to look at
    lfiles,   \* the paths a running load_volume has still to read
    call,     \* the arguments of the pmap call (<<>> before the call)
    taken,    \* how many tasks the pool's workers have taken from its queue
    busy,     \* the indices of the tasks workers are running
    finished, \* the finished tasks with their results, in the order they finished
    yielded,  \* what the iterator pmap returned has yielded, in order
    exhausted, \* whether that iterator has raised StopIteration
    wrapped,  \* the function curry was applied to and the names curry requires
    held,     \* the arguments the latest returned function holds
    given,    \* all arguments the successive calls were given, in order
    ncalls,   \* how many successive calls were made
    fcalls,   \* how many times the wrapped function was called
    ret,      \* what the latest call returned: a function, or the outcome of f
    prep,     \* the arguments of the preprocess_mask call (<<>> before the call)
    stacked   \* the outcome of preprocess_mask

vars == <<dir, op, res, arr, arr0, flips, coll, mode, pos, loaded, out, exc, last,
          tree, tree0, purged, decoded, dataset, stats,
          pfiles, lfiles,
          call, taken, busy, finished, yielded, exhausted,
          wrapped, held, given, ncalls, fcalls, ret,
          prep, stacked>>

(***************************************************************************)
(* Bounds of the model.                                                    *)
(***************************************************************************)
MaxH == 2
MaxW == 3
MaxD == 2
MaxSlices == 3
MaxOrgans == 2
MaxNameLen == 4
MaxEntries == 3
MaxFlips == 2
MaxScans == 3
MaxFiles == 3
MaxKeyOrgans == 3
MaxTasks == 3
MaxWorkers == 3
MaxArgs == 3
MaxCalls == 3
MaxMaskKeys == 3

(***************************************************************************)
(* Outcomes.                                                               *)
(***************************************************************************)
Ok(v) == [kind |-> "ok", val |-> v]
None == [kind |-> "none", val |-> <<>>]
Raise == [kind |-> "raise", val |-> <<>>]

\* @logger.catch(): an exception inside the wrapped function is logged and
\* the call returns None instead.
LoggerCatch(r) == IF r.kind = "raise" THEN None ELSE r

(***************************************************************************)
(* Sequence helpers.                                                       *)
(***************************************************************************)
Reverse(s) == [i \in 1..Len(s) |-> s[Len(s) + 1 - i]]

RECURSIVE SeqsUpTo(_, _)
SeqsUpTo(S, n) ==
    IF n = 0 THEN {<<>>}
    ELSE LET shorter == SeqsUpTo(S, n - 1)
         IN  shorter \cup {Append(s, x) : s \in {t \in shorter : Len(t) = n - 1}, x \in S}

(***************************************************************************)
(* SOP class UIDs; "NONE" stands for a record without the SOPClassUID      *)
(* field.                                                                  *)
(***************************************************************************)
CT_IMAGE == "1.2.840.10008.5.1.4.1.1.2"
RT_STRUCTURE_SET == "1.2.840.10008.5.1.4.1.1.481.3"
RT_DOSE == "1.2.840.10008.5.1.4.1.1.481.2"
NO_UID == "NONE"

(***************************************************************************)
(* Files.  Every file record has every field; a field a file type does not *)
(* use holds a fixed filler.                                               *)
(*   dcm        the file name ends in .dcm                                 *)
(*   uid        SOPClassUID, or NO_UID                                     *)
(*   thick      SliceThickness                                             *)
(*   spacing    PixelSpacing (two values)                                  *)
(*   iop, ipp   ImageOrientationPatient (6), ImagePositionPatient (3)      *)
(*   pixel      pixel_array, shape (H, W)                                  *)
(*   slope, intercept, hasRescale                                          *)
(*              RescaleSlope, RescaleIntercept, and whether the record     *)
(*              has these two fields at all                                *)
(*   tag        tells two files apart (stands for the rest of the content) *)
(*   build      RTStructBuilder.create_from succeeds for this file         *)
(*   rois       the structure set's organs in get_roi_names order, each    *)
(*              [name, ok, mask]: ok says get_roi_mask_by_name returns     *)
(*              mask, otherwise it raises                                  *)
(***************************************************************************)
IOP_HEAD == <<1, 0, 0, 0, 1, 0>>
IOP_FEET == <<1, 0, 0, 0, -1, 0>>

\* A pixel array of shape (h, w) whose entries tell the cell and the file.
Ramp(h, w, base) == [i \in 1..h |-> [j \in 1..w |-> base + 10 * i + j]]

CTFile(tag, h, w, z, iop, thick, spacing, hasRescale) ==
    [dcm |-> TRUE, uid |-> CT_IMAGE, tag |-> tag, thick |-> thick,
     spacing |-> spacing, iop |-> iop, ipp |-> <<-2, 2, z>>,
     pixel |-> Ramp(h, w, 100 * tag), slope |-> tag + 1, intercept |-> 0 - tag,
     hasRescale |-> hasRescale, build |-> FALSE, rois |-> <<>>]

RTFile(tag, build, rois) ==
    [dcm |-> TRUE, uid |-> RT_STRUCTURE_SET, tag |-> tag, thick |-> 0,
     spacing |-> <<0, 0>>, iop |-> IOP_HEAD, ipp |-> <<0, 0, 0>>,
     pixel |-> <<>>, slope |-> 0, intercept |-> 0,
     hasRescale |-> FALSE, build |-> build, rois |-> rois]

OtherFile(tag, dcm, uid) ==
    [dcm |-> dcm, uid |-> uid, tag |-> tag, thick |-> 0,
     spacing |-> <<0, 0>>, iop |-> IOP_HEAD, ipp |-> <<0, 0, 0>>,
     pixel |-> <<>>, slope |-> 0, intercept |-> 0,
     hasRescale |-> FALSE, build |-> FALSE, rois |-> <<>>]

(***************************************************************************)
(* _flip_array: np.flip on the last axis (depth), then on axis 1 (width).  *)
(***************************************************************************)
FlipDepth(a) == [h \in 1..Len(a) |-> [w \in 1..Len(a[h]) |-> Reverse(a[h][w])]]

FlipWidth(a) == [h \in 1..Len(a) |-> Reverse(a[h])]

\* A plausible slip: the depth axis flipped, the width axis rolled by one
\* instead of reversed.
RollWidth(a) ==
    [h \in 1..Len(a) |->
        [w \in 1..Len(a[h]) |-> a[h][IF w = Len(a[h]) THEN 1 ELSE w + 1]]]

Mutant_flip_roll(array) == RollWidth(FlipDepth(array))

_flip_array(array) == FlipWidth(FlipDepth(array))

(***************************************************************************)
(* _dicom_type_is: a record without SOPClassUID matches no uid.            *)
(***************************************************************************)
_dicom_type_is(f, uid) == f.uid # NO_UID /\ f.uid = uid

(***************************************************************************)
(* _dicom_slice_order: dot(IPP, cross(IOP[:3], IOP[3:])).                  *)
(***************************************************************************)
Cross(a, b) ==
    << a[2] * b[3] - a[3] * b[2],
       a[3] * b[1] - a[1] * b[3],
       a[1] * b[2] - a[2] * b[1] >>

Dot(a, b) == a[1] * b[1] + a[2] * b[2] + a[3] * b[3]

_dicom_slice_order(f) ==
    Dot(f.ipp, Cross(SubSeq(f.iop, 1, 3), SubSeq(f.iop, 4, 6)))

(***************************************************************************)
(* sorted(key=_dicom_slice_order): Python's sort is stable, so a file goes *)
(* after every earlier file whose key is not greater than its own.         *)
(***************************************************************************)
RECURSIVE InsertByKey(_, _)
InsertByKey(x, s) ==
    IF s = <<>> THEN <<x>>
    ELSE IF _dicom_slice_order(s[Len(s)]) <= _dicom_slice_order(x)
         THEN Append(s, x)
         ELSE Append(InsertByKey(x, SubSeq(s, 1, Len(s) - 1)), s[Len(s)])

\* A plausible slip: the sort left out, the slices kept in listing order.
Mutant_unsorted(s) == s

RECURSIVE SortedByKey(_)
SortedByKey(s) ==
    IF s = <<>> THEN <<>>
    ELSE InsertByKey(s[Len(s)], SortedByKey(SubSeq(s, 1, Len(s) - 1)))

(***************************************************************************)
(* _get_dicom_slices: the decoded records of the .dcm files, in listing    *)
(* order.                                                                  *)
(***************************************************************************)
_get_dicom_slices(d) == SelectSeq(d, LAMBDA f : f.dcm)

(***************************************************************************)
(* _get_ct_image_slices: CT image records with SliceThickness > 0, sorted  *)
(* by slice order.                                                         *)
(***************************************************************************)
IsCtSlice(f) == _dicom_type_is(f, CT_IMAGE)

HasThickness(f) == f.thick > 0

_get_ct_image_slices(d) ==
    SortedByKey(SelectSeq(SelectSeq(_get_dicom_slices(d), IsCtSlice), HasThickness))

(***************************************************************************)
(* load_volume.  Reading RescaleIntercept or RescaleSlope of a record      *)
(* without them raises; np.stack raises when the slices differ in shape.   *)
(* load_volume has no @logger.catch: the exception leaves it.              *)
(***************************************************************************)
Shape2(p) == <<Len(p), IF Len(p) = 0 THEN 0 ELSE Len(p[1])>>

\* (slice_ * slope) + intercept
Rescale(p, slope, intercept) ==
    [h \in 1..Len(p) |-> [w \in 1..Len(p[h]) |-> p[h][w] * slope + intercept]]

\* A plausible slip: np.stack on the first axis.
Mutant_stack_first(slices) == slices

\* np.stack(slices, axis=-1)
StackLast(slices) ==
    [h \in 1..Len(slices[1]) |->
        [w \in 1..Len(slices[1][h]) |->
            [k \in 1..Len(slices) |-> slices[k][h][w]]]]

\* A plausible slip: every slice rescaled with the first slice's slope and
\* intercept.
Mutant_rescaled_first(d) ==
    LET s == _get_ct_image_slices(d)
    IN  [k \in 1..Len(s) |-> Rescale(s[k].pixel, s[1].slope, s[1].intercept)]

RescaledSlices(d) ==
    LET s == _get_ct_image_slices(d)
    IN  [k \in 1..Len(s) |-> Rescale(s[k].pixel, s[k].slope, s[k].intercept)]

\* A plausible slip: load_volume under @logger.catch like its siblings.
Mutant_load_volume_caught(d) ==
    LET s == _get_ct_image_slices(d)
    IN  IF \E k \in 1..Len(s) : ~s[k].hasRescale THEN None
        ELSE IF s = <<>> THEN None
        ELSE IF \E k \in 1..Len(s) : Shape2(s[k].pixel) # Shape2(s[1].pixel) THEN None
        ELSE Ok(_flip_array(StackLast(RescaledSlices(d))))

load_volume(d) ==
    LET s == _get_ct_image_slices(d)
    IN  IF \E k \in 1..Len(s) : ~s[k].hasRescale THEN Raise
        ELSE IF s = <<>> THEN None
        ELSE IF \E k \in 1..Len(s) : Shape2(s[k].pixel) # Shape2(s[1].pixel) THEN Raise
        ELSE Ok(_flip_array(StackLast(RescaledSlices(d))))

(***************************************************************************)
(* _get_uniform_spacing: the (PixelSpacing[0], PixelSpacing[1],            *)
(* SliceThickness) of the first slice when every slice has the same value  *)
(* on every axis, None otherwise or when there is no slice.                *)
(***************************************************************************)
SpacingOf(f) == <<f.spacing[1], f.spacing[2], f.thick>>

\* A plausible slip: only the two in-plane axes compared.
Mutant_is_uniform_in_plane(spacings) ==
    \A axis \in 1..2 : \A k \in 1..Len(spacings) : spacings[k][axis] = spacings[1][axis]

is_uniform(spacings) ==
    \A axis \in 1..3 : \A k \in 1..Len(spacings) : spacings[k][axis] = spacings[1][axis]

\* A plausible slip: the first slice's spacing taken without the check.
Mutant_spacing_of_first(slices) ==
    IF slices # <<>> THEN Ok(SpacingOf(slices[1])) ELSE None

_get_uniform_spacing(slices) ==
    LET spacings == [k \in 1..Len(slices) |-> SpacingOf(slices[k])]
    IN  IF spacings # <<>> /\ is_uniform(spacings) THEN Ok(spacings[1]) ELSE None

(***************************************************************************)
(* _standardise_roi_name: name.strip().lower().replace(" ", "_").          *)
(***************************************************************************)
Whitespace == {" ", "\t", "\n"}

UpperCase == <<"A", "B", "C", "D", "E", "F", "G", "H", "I", "J", "K", "L", "M",
               "N", "O", "P", "Q", "R", "S", "T", "U", "V", "W", "X", "Y", "Z">>

LowerCase == <<"a", "b", "c", "d", "e", "f", "g", "h", "i", "j", "k", "l", "m",
               "n", "o", "p", "q", "r", "s", "t", "u", "v", "w", "x", "y", "z">>

LowerChar(c) ==
    IF \E i \in 1..Len(UpperCase) : UpperCase[i] = c
    THEN LowerCase[CHOOSE i \in 1..Len(UpperCase) : UpperCase[i] = c]
    ELSE c

RECURSIVE LStrip(_)
LStrip(s) == IF s # <<>> /\ s[1] \in Whitespace THEN LStrip(Tail(s)) ELSE s

Strip(s) == Reverse(LStrip(Reverse(LStrip(s))))

Lower(s) == [i \in 1..Len(s) |-> LowerChar(s[i])]

\* str.replace(" ", "_"): every space character becomes one underscore.
ReplaceSpaces(s) == [i \in 1..Len(s) |-> IF s[i] = " " THEN "_" ELSE s[i]]

_standardise_roi_name(name) == ReplaceSpaces(Lower(Strip(name)))

(***************************************************************************)
(* _load_roi_mask: rt_struct.get_roi_mask_by_name under @logger.catch, so  *)
(* None when the extraction raises.                                        *)
(***************************************************************************)
get_roi_mask_by_name(roi) == IF roi.ok THEN Ok(roi.mask) ELSE Raise

\* A plausible slip: the wrapper without @logger.catch.
Mutant_load_roi_mask_no_catch(roi) == get_roi_mask_by_name(roi)

_load_roi_mask(roi) == LoggerCatch(get_roi_mask_by_name(roi))

(***************************************************************************)
(* _load_rt_structs: one RTStructBuilder.create_from per .dcm file of the  *)
(* structure-set type, in listing order.  load_mask takes list() of it, so *)
(* every file's object is built and one failing build raises.              *)
(***************************************************************************)
IsRtStruct(f) == _dicom_type_is(f, RT_STRUCTURE_SET)

RtStructFiles(d) == SelectSeq(SelectSeq(d, LAMBDA f : f.dcm), IsRtStruct)

_load_rt_structs(d) ==
    LET files == RtStructFiles(d)
    IN  IF \E k \in 1..Len(files) : ~files[k].build THEN Raise ELSE Ok(files)

(***************************************************************************)
(* load_mask.                                                              *)
(***************************************************************************)
\* (name, mask) pairs of the organs whose mask is not None, each mask
\* flipped and each name standardised; "raise" when a step raises.
MaskPairs(rois) ==
    LET loaded_ == [i \in 1..Len(rois) |-> _load_roi_mask(rois[i])]
        kept == SelectSeq([i \in 1..Len(rois) |-> i], LAMBDA i : loaded_[i].kind = "ok")
    IN  IF \E i \in 1..Len(rois) : loaded_[i].kind = "raise" THEN Raise
        ELSE Ok([j \in 1..Len(kept) |->
                    << _standardise_roi_name(rois[kept[j]].name),
                       _flip_array(loaded_[kept[j]].val) >>])

\* A plausible slip: the first pair with a key kept, later ones dropped.
Mutant_dict_first_wins(pairs) ==
    [k \in {pairs[i][1] : i \in 1..Len(pairs)} |->
        LET first == CHOOSE i \in 1..Len(pairs) :
                        /\ pairs[i][1] = k
                        /\ \A j \in 1..Len(pairs) : pairs[j][1] = k => i <= j
        IN  pairs[first][2]]

\* dict(pairs): a later pair replaces an earlier pair with the same key.
DictOf(pairs) ==
    [k \in {pairs[i][1] : i \in 1..Len(pairs)} |->
        LET final == CHOOSE i \in 1..Len(pairs) :
                        /\ pairs[i][1] = k
                        /\ \A j \in 1..Len(pairs) : pairs[j][1] = k => j <= i
        IN  pairs[final][2]]

\* A plausible slip: an empty mapping reported as None.
Mutant_mask_result_none_if_empty(pairs) ==
    IF pairs = <<>> THEN None ELSE Ok(DictOf(pairs))

MaskResult(pairs) == Ok(DictOf(pairs))

\* logger.warning("Multiple RT struct files found! ..."): reached when the
\* list of extraction objects was built and holds more than one.
load_mask_warns(d) ==
    LET rt_struct == _load_rt_structs(d)
    IN  rt_struct.kind = "ok" /\ rt_struct.val # <<>> /\ Len(rt_struct.val) # 1

\* A plausible slip: the last extraction object used in place of the first.
Mutant_mask_uses_last(d) ==
    LET rt_struct == _load_rt_structs(d)
    IN  IF rt_struct.kind = "raise" THEN Raise
        ELSE IF rt_struct.val = <<>> THEN Raise
        ELSE LET pairs == MaskPairs(rt_struct.val[Len(rt_struct.val)].rois)
             IN  IF pairs.kind = "raise" THEN Raise ELSE MaskResult(pairs.val)

load_mask_body(d) ==
    LET rt_struct == _load_rt_structs(d)
    IN  IF rt_struct.kind = "raise" THEN Raise
        ELSE IF rt_struct.val = <<>> THEN Raise     \* ValueError: no RT struct file
        ELSE LET pairs == MaskPairs(rt_struct.val[1].rois)
             IN  IF pairs.kind = "raise" THEN Raise ELSE MaskResult(pairs.val)

\* A plausible slip: the function without @logger.catch.
Mutant_mask_no_catch(d) == load_mask_body(d)

load_mask(d) == LoggerCatch(load_mask_body(d))

(***************************************************************************)
(* load_patient_scan.                                                      *)
(***************************************************************************)
\* A plausible slip: only a None mask rejected, an empty mapping accepted.
Mutant_mask_missing_none_only(mask) == mask.kind = "none"

\* `not mask`: None or an empty mapping.
MaskMissing(mask) == mask.kind = "none" \/ DOMAIN mask.val = {}

load_patient_scan_body(d) ==
    LET dicom_slices == _get_ct_image_slices(d)
        spacings == _get_uniform_spacing(dicom_slices)
    IN  IF dicom_slices = <<>> THEN Raise
        ELSE IF spacings.kind = "none" THEN Raise
        ELSE LET d_file == dicom_slices[1]
                 volume == load_volume(d)
                 mask == load_mask(d)
             IN  IF volume.kind = "raise" THEN Raise
                 ELSE IF volume.kind = "none" THEN Raise
                 ELSE IF MaskMissing(mask) THEN Raise
                 ELSE Ok([volume |-> volume.val,
                          masks |-> mask.val,
                          dimension_original |->
                              <<Len(d_file.pixel), Len(d_file.pixel[1]), Len(dicom_slices)>>,
                          spacings |-> spacings.val])

\* A plausible slip: the function without @logger.catch.
Mutant_scan_no_catch(d) == load_patient_scan_body(d)

load_patient_scan(d) == LoggerCatch(load_patient_scan_body(d))

(***************************************************************************)
(* Inputs.                                                                 *)
(***************************************************************************)
\* A binary mask of shape (1, 2, 2) whose single 1 tells the organ's place
\* in the structure set.
MaskOf(i) ==
    [h \in 1..1 |-> [w \in 1..2 |-> [k \in 1..2 |-> IF 2 * (w - 1) + k = i THEN 1 ELSE 0]]]

OrganNames ==
    { <<"O", "r", "g", "a", "n", " ", "1">>,
      <<"o", "r", "g", "a", "n", " ", "1">>,
      <<"L", "i", "v", "e", "r">> }

RoiLists ==
    { [i \in 1..Len(q) |-> [name |-> q[i][1], ok |-> q[i][2], mask |-> MaskOf(i)]] :
        q \in SeqsUpTo(OrganNames \X BOOLEAN, MaxOrgans) }

\* A second structure-set file of the same directory: one that builds and
\* one whose extraction object cannot be built.
SecondRtFiles ==
    { RTFile(9, TRUE, <<[name |-> <<"x">>, ok |-> TRUE, mask |-> MaskOf(4)]>>),
      RTFile(9, FALSE, <<>>) }

RtParts ==
    {<<>>}
    \cup { <<RTFile(8, b, rois)>> : b \in BOOLEAN, rois \in RoiLists }
    \cup { <<RTFile(8, b, rois), second>> :
              b \in BOOLEAN, rois \in RoiLists, second \in SecondRtFiles }

\* Image series: none, one slice, two slices listed feet first, two slices
\* that differ in spacing, a slice without rescale fields, only a
\* zero-thickness reference slice, two slices that differ in shape, a
\* zero-thickness slice listed before two slices three columns wide.
CtSeries ==
    { <<>>,
      <<CTFile(1, 1, 3, 2, IOP_HEAD, 0, <<1, 1>>, TRUE),
        CTFile(2, 1, 3, 1, IOP_HEAD, 1, <<1, 1>>, TRUE),
        CTFile(3, 1, 3, 0, IOP_HEAD, 1, <<1, 1>>, TRUE)>>,
      <<CTFile(1, 1, 2, 0, IOP_HEAD, 1, <<1, 1>>, TRUE)>>,
      <<CTFile(1, 1, 2, 1, IOP_HEAD, 1, <<1, 1>>, TRUE),
        CTFile(2, 1, 2, 0, IOP_HEAD, 1, <<1, 1>>, TRUE)>>,
      <<CTFile(1, 1, 2, 0, IOP_HEAD, 1, <<1, 1>>, TRUE),
        CTFile(2, 1, 2, 1, IOP_HEAD, 1, <<1, 2>>, TRUE)>>,
      <<CTFile(1, 1, 2, 0, IOP_HEAD, 1, <<1, 1>>, FALSE)>>,
      <<CTFile(1, 1, 2, 0, IOP_HEAD, 0, <<1, 1>>, TRUE)>>,
      <<CTFile(1, 1, 2, 0, IOP_HEAD, 1, <<1, 1>>, TRUE),
        CTFile(2, 2, 2, 1, IOP_HEAD, 1, <<1, 1>>, TRUE)>> }

\* Directories without any file whose name ends in .dcm.
NoDicomDirs ==
    { <<OtherFile(5, FALSE, CT_IMAGE)>>,
      <<OtherFile(5, FALSE, RT_STRUCTURE_SET), OtherFile(6, FALSE, NO_UID)>> }

ScanDirs == { ct \o rt : ct \in CtSeries, rt \in RtParts } \cup NoDicomDirs

\* Image series for load_volume: up to MaxSlices CT files of one shape and
\* one orientation, each at one of three positions (so positions repeat and
\* come in every listing order) and with thickness 0 or 1.
ZVals == 0..2
ThickVals == 0..1

VolumeDirs ==
    { [i \in 1..Len(q) |-> CTFile(i, hw[1], hw[2], q[i][1], iop, q[i][2], <<1, 1>>, TRUE)] :
        q \in SeqsUpTo(ZVals \X ThickVals, MaxSlices),
        hw \in {<<1, 1>>, <<MaxH, MaxW>>},
        iop \in {IOP_HEAD, IOP_FEET} }

\* Listings for the slice helpers, each of up to MaxSlices files.
\* OrderDirs: CT files of one orientation at positions of Positions, some of
\* which lie in one plane across the slice normal.
Positions == { <<0, 0, 0>>, <<0, 0, 1>>, <<0, 0, 2>>, <<1, 0, 0>>, <<0, 1, 1>> }

OrderDirs ==
    { [i \in 1..Len(q) |->
          [CTFile(i, 1, 1, 0, iop, 1, <<1, 1>>, TRUE) EXCEPT !.ipp = q[i]]] :
        q \in SeqsUpTo(Positions, MaxSlices), iop \in {IOP_HEAD, IOP_FEET} }

\* FilterDirs: CT files of thickness 1, 0 and -1, a CT file whose name does
\* not end in .dcm, files of another type and without the type field, and a
\* structure-set file.
FileKinds == {"ct", "ct_zero", "ct_negative", "ct_not_dcm", "dose", "no_uid", "rt"}

FileOfKind(kind, i) ==
    CASE kind = "ct" -> CTFile(i, 1, 1, i, IOP_HEAD, 1, <<1, 1>>, TRUE)
      [] kind = "ct_zero" -> CTFile(i, 1, 1, i, IOP_HEAD, 0, <<1, 1>>, TRUE)
      [] kind = "ct_negative" -> CTFile(i, 1, 1, i, IOP_HEAD, -1, <<1, 1>>, TRUE)
      [] kind = "ct_not_dcm" ->
             [CTFile(i, 1, 1, i, IOP_HEAD, 1, <<1, 1>>, TRUE) EXCEPT !.dcm = FALSE]
      [] kind = "dose" -> OtherFile(i, TRUE, RT_DOSE)
      [] kind = "no_uid" -> OtherFile(i, TRUE, NO_UID)
      [] kind = "rt" -> RTFile(i, TRUE, <<>>)

FilterDirs ==
    { [i \in 1..Len(q) |-> FileOfKind(q[i], i)] : q \in SeqsUpTo(FileKinds, MaxSlices) }

\* SpacingDirs: CT files whose spacing on each axis is 1 or 2.
SpacingVals == 1..2

SpacingDirs ==
    { [i \in 1..Len(q) |->
          CTFile(i, 1, 1, i, IOP_HEAD, q[i][3], <<q[i][1], q[i][2]>>, TRUE)] :
        q \in SeqsUpTo(SpacingVals \X SpacingVals \X SpacingVals, MaxSlices) }

SliceDirs == OrderDirs \cup FilterDirs \cup SpacingDirs

\* Directories whose structure set has one organ, of every name up to
\* MaxNameLen characters over NameChars.
NameChars == {"A", "b", " ", "\t"}

Names == SeqsUpTo(NameChars, MaxNameLen)

NameDirs ==
    { <<RTFile(8, TRUE, <<[name |-> n, ok |-> TRUE, mask |-> MaskOf(1)]>>)>> : n \in Names }

\* Directories whose structure set lists up to MaxKeyOrgans organs, with
\* names of which two standardise to one key.
KeyDirs ==
    { <<RTFile(8, TRUE,
               [i \in 1..Len(q) |-> [name |-> q[i][1], ok |-> q[i][2], mask |-> MaskOf(i)]])>> :
        q \in SeqsUpTo(OrganNames \X BOOLEAN, MaxKeyOrgans) }

\* 3D arrays of every shape up to (MaxH, MaxW, MaxD): one with all entries
\* different, and one per cell with a single 1 in that cell.
Ramp3(h, w, d) == [i \in 1..h |-> [j \in 1..w |-> [k \in 1..d |-> 100 * i + 10 * j + k]]]

OneHot(h, w, d, c) ==
    [i \in 1..h |-> [j \in 1..w |-> [k \in 1..d |->
        IF ((i - 1) * w + (j - 1)) * d + k = c THEN 1 ELSE 0]]]

Arrays ==
    UNION { {Ramp3(h, w, d)} \cup {OneHot(h, w, d, c) : c \in 1..(h * w * d)} :
              h \in 1..MaxH, w \in 1..MaxW, d \in 1..MaxD }

(***************************************************************************)
(* Single-directory calls.                                                 *)
(***************************************************************************)
IdleDir == dir = <<>> /\ op = "idle" /\ res = None
IdleFlip == arr = <<>> /\ arr0 = <<>> /\ flips = 0
IdleSweep ==
    /\ coll = <<>> /\ mode = "idle" /\ pos = 0
    /\ loaded = <<>> /\ out = <<>> /\ exc = <<>> /\ last = "none"

IdlePurge == tree = <<>> /\ tree0 = <<>> /\ purged = "idle" /\ decoded = <<>>
IdleStats == dataset = <<>> /\ stats = None
IdleRace == pfiles = <<>> /\ lfiles = <<>>
IdleCurry ==
    /\ wrapped = <<>> /\ held = <<>> /\ given = <<>>
    /\ ncalls = 0 /\ fcalls = 0 /\ ret = [kind |-> "idle"]
IdlePrep == prep = <<>> /\ stacked = None
IdlePmap ==
    /\ call = <<>> /\ taken = 0 /\ busy = {}
    /\ finished = <<>> /\ yielded = <<>> /\ exhausted = FALSE

dirVars == <<dir, op, res>>
flipVars == <<arr, arr0, flips>>
sweepVars == <<coll, mode, pos, loaded, out, exc, last>>
purgeVars == <<tree, tree0, purged, decoded>>
statsVars == <<dataset, stats>>
raceVars == <<pfiles, lfiles>>
pmapVars == <<call, taken, busy, finished, yielded, exhausted>>
curryVars == <<wrapped, held, given, ncalls, fcalls, ret>>
prepVars == <<prep, stacked>>

DoLoadVolume ==
    /\ op = "idle"
    /\ op' = "load_volume"
    /\ res' = load_volume(dir)
    /\ UNCHANGED <<dir, flipVars, sweepVars, purgeVars, statsVars, raceVars, pmapVars, curryVars, prepVars>>

DoLoadMask ==
    /\ op = "idle"
    /\ op' = "load_mask"
    /\ res' = load_mask(dir)
    /\ UNCHANGED <<dir, flipVars, sweepVars, purgeVars, statsVars, raceVars, pmapVars, curryVars, prepVars>>

DoLoadPatientScan ==
    /\ op = "idle"
    /\ op' = "load_patient_scan"
    /\ res' = load_patient_scan(dir)
    /\ UNCHANGED <<dir, flipVars, sweepVars, purgeVars, statsVars, raceVars, pmapVars, curryVars, prepVars>>

NextDir == DoLoadVolume \/ DoLoadMask \/ DoLoadPatientScan

InitScan == dir \in ScanDirs /\ op = "idle" /\ res = None /\ IdleFlip /\ IdleSweep
    /\ IdlePurge /\ IdleStats /\ IdleRace /\ IdlePmap /\ IdleCurry /\ IdlePrep
SpecScan == InitScan /\ [][NextDir]_vars

InitVolume == dir \in VolumeDirs /\ op = "idle" /\ res = None /\ IdleFlip /\ IdleSweep
    /\ IdlePurge /\ IdleStats /\ IdleRace /\ IdlePmap /\ IdleCurry /\ IdlePrep
SpecVolume == InitVolume /\ [][NextDir]_vars

InitName == dir \in NameDirs /\ op = "idle" /\ res = None /\ IdleFlip /\ IdleSweep
    /\ IdlePurge /\ IdleStats /\ IdleRace /\ IdlePmap /\ IdleCurry /\ IdlePrep
SpecName == InitName /\ [][NextDir]_vars

InitKeys == dir \in KeyDirs /\ op = "idle" /\ res = None /\ IdleFlip /\ IdleSweep
    /\ IdlePurge /\ IdleStats /\ IdleRace /\ IdlePmap /\ IdleCurry /\ IdlePrep
SpecKeys == InitKeys /\ [][NextDir]_vars

(***************************************************************************)
(* The slice helpers applied to one listing: _get_ct_image_slices, and      *)
(* _get_uniform_spacing on its result as load_patient_scan calls it.       *)
(***************************************************************************)
DoGetCtImageSlices ==
    /\ op = "idle"
    /\ op' = "_get_ct_image_slices"
    /\ res' = Ok(_get_ct_image_slices(dir))
    /\ UNCHANGED <<dir, flipVars, sweepVars, purgeVars, statsVars, raceVars, pmapVars, curryVars, prepVars>>

DoGetUniformSpacing ==
    /\ op = "idle"
    /\ op' = "_get_uniform_spacing"
    /\ res' = _get_uniform_spacing(_get_ct_image_slices(dir))
    /\ UNCHANGED <<dir, flipVars, sweepVars, purgeVars, statsVars, raceVars, pmapVars, curryVars, prepVars>>

NextSlices == DoGetCtImageSlices \/ DoGetUniformSpacing

InitSlices ==
    /\ dir \in SliceDirs /\ op = "idle" /\ res = None
    /\ IdleFlip /\ IdleSweep /\ IdlePurge /\ IdleStats /\ IdleRace /\ IdlePmap /\ IdleCurry /\ IdlePrep

SpecSlices == InitSlices /\ [][NextSlices]_vars

(***************************************************************************)
(* The orientation transform applied repeatedly to one array.              *)
(***************************************************************************)
DoFlip ==
    /\ flips < MaxFlips
    /\ arr' = _flip_array(arr)
    /\ flips' = flips + 1
    /\ UNCHANGED <<arr0, dirVars, sweepVars, purgeVars, statsVars, raceVars, pmapVars, curryVars, prepVars>>

NextFlip == DoFlip

InitFlip ==
    /\ arr0 \in Arrays /\ arr = arr0 /\ flips = 0
    /\ IdleDir /\ IdleSweep /\ IdlePurge /\ IdleStats /\ IdleRace /\ IdlePmap /\ IdleCurry /\ IdlePrep
SpecFlip == InitFlip /\ [][NextFlip]_vars

(***************************************************************************)
(* Claims about one directory.                                             *)
(***************************************************************************)

\* C1: load_patient_scan returns None whenever load_volume yields None or
\* load_mask yields None or an empty mapping; every record it returns holds
\* the volume load_volume returns and a mapping with at least one organ.
C1_ScanHasVolumeAndMask ==
    op = "load_patient_scan" =>
        LET volume == load_volume(dir)
            mask == load_mask(dir)
        IN  /\ ( \/ volume.kind = "none"
                 \/ mask.kind = "none"
                 \/ (mask.kind = "ok" /\ DOMAIN mask.val = {}) ) => res.kind = "none"
            /\ res.kind = "ok" =>
                   /\ volume.kind = "ok"
                   /\ res.val.volume = volume.val
                   /\ Len(res.val.volume) > 0
                   /\ mask.kind = "ok"
                   /\ res.val.masks = mask.val
                   /\ DOMAIN res.val.masks # {}

\* C1's case: a directory with a loadable volume and a structure set whose
\* organs all fail to extract (an empty mapping), loaded as a scan.
C1_Witness ==
    /\ op = "load_patient_scan"
    /\ res.kind = "none"
    /\ load_volume(dir).kind = "ok"
    /\ load_mask(dir).kind = "ok"
    /\ DOMAIN load_mask(dir).val = {}

\* The organs of the extraction object load_mask uses (the first one), when
\* every structure-set file of the directory yields its extraction object.
HasChosenRtStruct(d) == _load_rt_structs(d).kind = "ok" /\ _load_rt_structs(d).val # <<>>

ChosenRois(d) == _load_rt_structs(d).val[1].rois

\* C6: with the extraction object obtained, load_mask returns a mapping
\* whose keys are exactly the standardised names of the organs whose
\* extraction succeeded, whichever subset of the organs fails.
C6_MaskFailSoftPerOrgan ==
    (op = "load_mask" /\ HasChosenRtStruct(dir)) =>
        /\ res.kind = "ok"
        /\ DOMAIN res.val =
               { _standardise_roi_name(ChosenRois(dir)[i].name) :
                   i \in {j \in 1..Len(ChosenRois(dir)) : ChosenRois(dir)[j].ok} }

\* C6's case: one organ fails, a later organ with another key succeeds and
\* is in the returned mapping.
C6_Witness ==
    /\ op = "load_mask"
    /\ HasChosenRtStruct(dir)
    /\ Len(ChosenRois(dir)) = 2
    /\ ~ChosenRois(dir)[1].ok
    /\ ChosenRois(dir)[2].ok
    /\ res.kind = "ok"
    /\ DOMAIN res.val = {_standardise_roi_name(ChosenRois(dir)[2].name)}

\* C7: load_mask returns None when the directory has no structure-set
\* file, and an empty mapping, not None, when the extraction object was
\* obtained and lists zero organs or every organ's extraction failed.
C7_MaskNoneVersusEmpty ==
    op = "load_mask" =>
        /\ RtStructFiles(dir) = <<>> => res = None
        /\ ( /\ HasChosenRtStruct(dir)
             /\ \A i \in 1..Len(ChosenRois(dir)) : ~ChosenRois(dir)[i].ok ) =>
               (res.kind = "ok" /\ DOMAIN res.val = {})

\* C7's case: a structure set all of whose (one or more) organs fail gives
\* an empty mapping.
C7_Witness ==
    /\ op = "load_mask"
    /\ HasChosenRtStruct(dir)
    /\ Len(ChosenRois(dir)) > 0
    /\ \A i \in 1..Len(ChosenRois(dir)) : ~ChosenRois(dir)[i].ok
    /\ res.kind = "ok"
    /\ DOMAIN res.val = {}

\* The key the claim describes: trimmed, lower-cased, every run of
\* whitespace characters replaced by a single underscore.
RECURSIVE CollapseWhitespace(_)
CollapseWhitespace(s) ==
    IF s = <<>> THEN <<>>
    ELSE IF s[1] \in Whitespace THEN <<"_">> \o CollapseWhitespace(LStrip(s))
    ELSE <<s[1]>> \o CollapseWhitespace(Tail(s))

ClaimedKey(name) == CollapseWhitespace(Lower(Strip(name)))

\* C8: the key under which load_mask stores an organ's mask is the name
\* trimmed, lower-cased, and with every run of one or more whitespace
\* characters replaced by a single underscore.
C8_KeyCollapsesWhitespaceRuns ==
    (op = "load_mask" /\ res.kind = "ok" /\ HasChosenRtStruct(dir)) =>
        DOMAIN res.val = {ClaimedKey(ChosenRois(dir)[i].name) : i \in 1..Len(ChosenRois(dir))}

\* C9: with s the image slices in ascending slice-order key, D their number
\* and (H, W) their shape, load_volume returns V of shape (H, W, D) with
\* V[h][w][d] = pixel(s[D+1-d])[h][W+1-w] * slope(s[D+1-d]) + intercept(s[D+1-d])
\* (indices from 1).
C9_VolumeLayout ==
    (op = "load_volume" /\ _get_ct_image_slices(dir) # <<>>) =>
        LET s == _get_ct_image_slices(dir)
            D == Len(s)
            H == Len(s[1].pixel)
            W == Len(s[1].pixel[1])
        IN  /\ \A k \in 1..(D - 1) : _dicom_slice_order(s[k]) <= _dicom_slice_order(s[k + 1])
            /\ res.kind = "ok"
            /\ Len(res.val) = H
            /\ \A h \in 1..H :
                   /\ Len(res.val[h]) = W
                   /\ \A w \in 1..W :
                          /\ Len(res.val[h][w]) = D
                          /\ \A k \in 1..D :
                                 res.val[h][w][k] =
                                     s[D + 1 - k].pixel[h][W + 1 - w] * s[D + 1 - k].slope
                                         + s[D + 1 - k].intercept

\* C9's case: a volume of at least two slices, listed in another order than
\* their slice order, and at least two columns wide.
C9_Witness ==
    /\ op = "load_volume"
    /\ res.kind = "ok"
    /\ Len(_get_ct_image_slices(dir)) >= 2
    /\ Len(res.val[1]) >= 2
    /\ _get_ct_image_slices(dir) # SelectSeq(dir, HasThickness)

(***************************************************************************)
(* Claims about the orientation transform.                                 *)
(***************************************************************************)

\* C10: applying _flip_array twice to a 3D array gives back the array,
\* element for element.
C10_FlipTwiceIsIdentity == flips = 2 => arr = arr0

\* C10's case: an array the transform changes, at least three columns wide
\* and two deep, flipped twice.
C10_Witness ==
    /\ flips = 2
    /\ Len(arr0[1]) >= 3
    /\ Len(arr0[1][1]) >= 2
    /\ _flip_array(arr0) # arr0

(***************************************************************************)
(* load_all_patient_scans, load_all_volumes, load_all_masks: a lazy        *)
(* pipeline filter(is not None, map(loader, generate_full_paths(listdir))).*)
(***************************************************************************)
OneOrgan(name, ok) == <<[name |-> name, ok |-> ok, mask |-> MaskOf(1)]>>

\* The directories a collection is made of: two that load as scans, and one
\* for each way a directory fails to.
DirGood ==
    << CTFile(1, 1, 2, 1, IOP_HEAD, 1, <<1, 1>>, TRUE),
       CTFile(2, 1, 2, 0, IOP_HEAD, 1, <<1, 1>>, TRUE),
       RTFile(8, TRUE, OneOrgan(<<"O", "r", "g", "a", "n", " ", "1">>, TRUE)) >>

DirGoodPartial ==
    << OtherFile(5, TRUE, RT_DOSE),
       OtherFile(6, FALSE, CT_IMAGE),
       OtherFile(7, TRUE, NO_UID),
       CTFile(3, 1, 2, 0, IOP_HEAD, 1, <<1, 1>>, TRUE),
       RTFile(8, TRUE, OneOrgan(<<"L", "i", "v", "e", "r">>, FALSE)
                           \o OneOrgan(<<"o", "r", "g", "a", "n", " ", "1">>, TRUE)) >>

DirEmpty == <<>>

DirNonUniform ==
    << CTFile(1, 1, 2, 0, IOP_HEAD, 1, <<1, 1>>, TRUE),
       CTFile(2, 1, 2, 1, IOP_HEAD, 1, <<1, 2>>, TRUE),
       RTFile(8, TRUE, OneOrgan(<<"L", "i", "v", "e", "r">>, TRUE)) >>

DirNoRescale ==
    << CTFile(1, 1, 2, 0, IOP_HEAD, 1, <<1, 1>>, FALSE),
       RTFile(8, TRUE, OneOrgan(<<"L", "i", "v", "e", "r">>, TRUE)) >>

DirShapes ==
    << CTFile(1, 1, 2, 0, IOP_HEAD, 1, <<1, 1>>, TRUE),
       CTFile(2, 2, 2, 1, IOP_HEAD, 1, <<1, 1>>, TRUE),
       RTFile(8, TRUE, OneOrgan(<<"L", "i", "v", "e", "r">>, TRUE)) >>

DirRtBuildFails ==
    << CTFile(1, 1, 2, 0, IOP_HEAD, 1, <<1, 1>>, TRUE),
       RTFile(8, FALSE, <<>>) >>

DirAllOrgansFail ==
    << CTFile(1, 1, 2, 0, IOP_HEAD, 1, <<1, 1>>, TRUE),
       RTFile(8, TRUE, OneOrgan(<<"L", "i", "v", "e", "r">>, FALSE)) >>

\* An entry of the collection is told by the kind of its content.
Catalogue ==
    { "good", "good_partial", "empty", "non_uniform", "no_rescale", "shapes",
      "rt_build_fails", "all_organs_fail" }

DirOf(entry) ==
    CASE entry = "good" -> DirGood
      [] entry = "good_partial" -> DirGoodPartial
      [] entry = "empty" -> DirEmpty
      [] entry = "non_uniform" -> DirNonUniform
      [] entry = "no_rescale" -> DirNoRescale
      [] entry = "shapes" -> DirShapes
      [] entry = "rt_build_fails" -> DirRtBuildFails
      [] entry = "all_organs_fail" -> DirAllOrgansFail

\* generate_full_paths(root, os.listdir): the path of every entry, root
\* joined with the entry's name, in listing order.  A path is the pair of
\* its directory and its last component.
generate_full_paths(root, listing) == [i \in 1..Len(listing) |-> <<root, listing[i]>>]

\* The collection directory's own path, and the files found at a path
\* under it.
CollectionPath == "collection"

FilesAt(path) == DirOf(path[2])

\* curried.map(load_patient_scan | load_volume | load_mask)
Loader(m, d) ==
    CASE m = "scans" -> load_patient_scan(d)
      [] m = "volumes" -> load_volume(d)
      [] m = "masks" -> load_mask(d)

\* A plausible slip: the filter keeps every result.
Mutant_keep_all(r) == TRUE

\* curried.filter(lambda x: x is not None)
KeepResult(r) == r.kind # "none"

\* A plausible slip: the results collected in a list when the pipeline is
\* created.
Mutant_eager_creation(m, c) == [i \in 1..Len(c) |-> i]

\* The entries loaded when the pipeline is created: none, map and filter
\* are lazy and generate_full_paths is a generator.
LoadedAtCreation(m, c) == <<>>

\* One next() of the pipeline that has pulled p entries: filter pulls from
\* map until a result is kept ("yield"), the loader raises ("raise": the
\* exception leaves next()), or the listing ends ("stop").
RECURSIVE PipelineNext(_, _, _)
PipelineNext(m, paths, p) ==
    IF p = Len(paths) THEN [pos |-> p, kind |-> "stop", item |-> None]
    ELSE LET r == Loader(m, FilesAt(paths[p + 1]))
         IN  IF r.kind = "raise" THEN [pos |-> p + 1, kind |-> "raise", item |-> None]
             ELSE IF KeepResult(r) THEN [pos |-> p + 1, kind |-> "yield", item |-> r]
             ELSE PipelineNext(m, paths, p + 1)

\* Creating a pipeline loads what LoadedAtCreation says and nothing else.
CallLoadAllPatientScans ==
    /\ mode = "idle"
    /\ mode' = "scans"
    /\ loaded' = LoadedAtCreation("scans", coll)
    /\ UNCHANGED <<coll, pos, out, exc, last, dirVars, flipVars, purgeVars, statsVars, raceVars, pmapVars, curryVars, prepVars>>

CallLoadAllVolumes ==
    /\ mode = "idle"
    /\ mode' = "volumes"
    /\ loaded' = LoadedAtCreation("volumes", coll)
    /\ UNCHANGED <<coll, pos, out, exc, last, dirVars, flipVars, purgeVars, statsVars, raceVars, pmapVars, curryVars, prepVars>>

CallLoadAllMasks ==
    /\ mode = "idle"
    /\ mode' = "masks"
    /\ loaded' = LoadedAtCreation("masks", coll)
    /\ UNCHANGED <<coll, pos, out, exc, last, dirVars, flipVars, purgeVars, statsVars, raceVars, pmapVars, curryVars, prepVars>>

\* The consumer asks for the next element.  map and filter objects survive
\* an exception of the mapped function, so the consumer may ask again after
\* one.
ConsumerNext ==
    /\ mode # "idle"
    /\ last # "stop"
    /\ LET r == PipelineNext(mode, generate_full_paths(CollectionPath, coll), pos)
       IN  /\ pos' = r.pos
           /\ loaded' = loaded \o [i \in 1..(r.pos - pos) |-> pos + i]
           /\ out' = IF r.kind = "yield"
                     THEN Append(out, [idx |-> r.pos, item |-> r.item]) ELSE out
           /\ exc' = IF r.kind = "raise" THEN Append(exc, r.pos) ELSE exc
           /\ last' = r.kind
    /\ UNCHANGED <<coll, mode, dirVars, flipVars, purgeVars, statsVars, raceVars, pmapVars, curryVars, prepVars>>

Next ==
    \/ CallLoadAllPatientScans
    \/ CallLoadAllVolumes
    \/ CallLoadAllMasks
    \/ ConsumerNext

Init ==
    /\ coll \in SeqsUpTo(Catalogue, MaxEntries)
    /\ mode = "idle" /\ pos = 0
    /\ loaded = <<>> /\ out = <<>> /\ exc = <<>> /\ last = "none"
    /\ IdleDir /\ IdleFlip /\ IdlePurge /\ IdleStats /\ IdleRace /\ IdlePmap /\ IdleCurry /\ IdlePrep

Spec == Init /\ [][Next]_vars

(***************************************************************************)
(* Claims about the sweeps.                                                *)
(***************************************************************************)
Yielded(i) == \E k \in 1..Len(out) : out[k].idx = i

\* C2: in load_all_patient_scans no exception reaches the consumer, and
\* every entry pulled so far whose load succeeds has been yielded, whatever
\* failed before it.
C2_ScanSweepNeverAborts ==
    mode = "scans" =>
        /\ exc = <<>>
        /\ last # "raise"
        /\ \A i \in 1..pos : load_patient_scan_body(DirOf(coll[i])).kind = "ok" => Yielded(i)

\* C2's case: an entry whose load raises inside load_patient_scan, followed
\* by an entry that is yielded.
C2_Witness ==
    /\ mode = "scans"
    /\ \E i \in 1..pos : \E j \in 1..pos :
           /\ i < j
           /\ load_patient_scan_body(DirOf(coll[i])).kind = "raise"
           /\ load_volume(DirOf(coll[i])).kind = "raise"
           /\ Yielded(j)

\* C3: in load_all_volumes and load_all_masks no exception reaches the
\* consumer, and every entry pulled so far whose volume (masks) loads has
\* been yielded.
C3_VolumeAndMaskSweepsNeverAbort ==
    mode \in {"volumes", "masks"} =>
        /\ exc = <<>>
        /\ last # "raise"
        /\ \A i \in 1..pos : Loader(mode, DirOf(coll[i])).kind = "ok" => Yielded(i)

\* C4: load_all_patient_scans yields exactly the non-None results of
\* load_patient_scan, applied once to each entry pulled, in listing order.
C4_ScansAreNonNoneResultsInOrder ==
    mode = "scans" =>
        LET per == [i \in 1..pos |-> load_patient_scan(DirOf(coll[i]))]
        IN  /\ loaded = [i \in 1..pos |-> i]
            /\ [k \in 1..Len(out) |-> out[k].item] = SelectSeq(per, LAMBDA r : r.kind = "ok")
            /\ \A k \in 1..Len(out) : out[k].item = per[out[k].idx]
            /\ \A k \in 1..(Len(out) - 1) : out[k].idx < out[k + 1].idx
            /\ last = "stop" => pos = Len(coll)

\* C4's case: the sweep is exhausted, with two scans yielded and an entry
\* that gave None between them.
C4_Witness ==
    /\ mode = "scans"
    /\ last = "stop"
    /\ Len(out) = 2
    /\ out[1].idx + 1 < out[2].idx

\* C5: no entry is loaded before the first request, and when an element has
\* just been received the loader has been invoked on the entries up to the
\* one that produced it and on no later entry.
C5_ScansLoadedOnDemand ==
    mode = "scans" =>
        /\ last = "none" => loaded = <<>>
        /\ last = "yield" => loaded = [i \in 1..out[Len(out)].idx |-> i]

\* C5's case: the first element received while a later, loadable entry has
\* not been loaded.
C5_Witness ==
    /\ mode = "scans"
    /\ last = "yield"
    /\ Len(out) = 1
    /\ \E j \in (out[1].idx + 1)..Len(coll) : load_patient_scan(DirOf(coll[j])).kind = "ok"
    /\ Len(loaded) = out[1].idx

(***************************************************************************)
(* Claims about the slice helpers.                                         *)
(***************************************************************************)
\* Every order the files of a listing can be listed in.
Relistings(d) == { [i \in 1..Len(d) |-> d[p[i]]] : p \in Permutations(1..Len(d)) }

OneOrientation(s) == \A i \in 1..Len(s) : s[i].iop = s[1].iop

DistinctPositions(s) ==
    \A i \in 1..Len(s) : \A j \in 1..Len(s) : i # j => s[i].ipp # s[j].ipp

Minus(a, b) == <<a[1] - b[1], a[2] - b[2], a[3] - b[3]>>

Colinear(a, b, c) == Cross(Minus(b, a), Minus(c, a)) = <<0, 0, 0>>

\* At least three positions, no three of them on one line.
NonColinearPositions(s) ==
    /\ Len(s) >= 3
    /\ \A i \in 1..Len(s) : \A j \in 1..Len(s) : \A k \in 1..Len(s) :
           (i < j /\ j < k) => ~Colinear(s[i].ipp, s[j].ipp, s[k].ipp)

DistinctKeys(s) ==
    \A i \in 1..Len(s) : \A j \in 1..Len(s) :
        i # j => _dicom_slice_order(s[i]) # _dicom_slice_order(s[j])

\* C11 as claimed: for image slices that share one orientation and have
\* pairwise distinct, non-colinear positions, _get_ct_image_slices gives the
\* same order for every permutation of the file listing.
C11_OrderSameForDistinctPositions ==
    ( /\ op = "_get_ct_image_slices"
      /\ OneOrientation(res.val)
      /\ DistinctPositions(res.val)
      /\ NonColinearPositions(res.val) ) =>
        \A r \in Relistings(dir) : _get_ct_image_slices(r) = res.val

\* C11 as amended: for image slices that share one orientation and have
\* pairwise distinct slice-order keys, _get_ct_image_slices gives the same
\* order for every permutation of the file listing.
C11_OrderSameForDistinctKeys ==
    ( /\ op = "_get_ct_image_slices"
      /\ OneOrientation(res.val)
      /\ DistinctKeys(res.val) ) =>
        \A r \in Relistings(dir) : _get_ct_image_slices(r) = res.val

\* C11's case: three slices with three different keys, listed in another
\* order than their slice order.
C11_Witness ==
    /\ op = "_get_ct_image_slices"
    /\ Len(res.val) = 3
    /\ OneOrientation(res.val)
    /\ DistinctKeys(res.val)
    /\ res.val # dir

\* The records the claim counts as image slices: .dcm files of the CT image
\* type whose thickness is not zero.
ClaimedSlices(d) ==
    SelectSeq(d, LAMBDA f : f.dcm /\ f.uid = CT_IMAGE /\ f.thick # 0)

\* C12: the image slices are exactly the .dcm records of the CT image type
\* whose slice thickness is not zero: records of another type or without
\* the type field and records of thickness zero are left out, every other
\* CT record is in.
C12_SlicesAreCtWithNonZeroThickness ==
    op = "_get_ct_image_slices" =>
        /\ Len(res.val) = Len(ClaimedSlices(dir))
        /\ {res.val[k] : k \in 1..Len(res.val)}
               = {ClaimedSlices(dir)[k] : k \in 1..Len(ClaimedSlices(dir))}

\* C13: _get_uniform_spacing returns the (PixelSpacing[0], PixelSpacing[1],
\* SliceThickness) triple exactly when there is a slice and every slice has
\* the same triple, None otherwise; a returned triple is the triple of every
\* slice.
C13_UniformSpacingIffAllIdentical ==
    op = "_get_uniform_spacing" =>
        LET s == _get_ct_image_slices(dir)
            same == s # <<>> /\ \A k \in 1..Len(s) : SpacingOf(s[k]) = SpacingOf(s[1])
        IN  /\ same => res = Ok(SpacingOf(s[1]))
            /\ ~same => res = None
            /\ res.kind = "ok" => \A k \in 1..Len(s) : res.val = SpacingOf(s[k])

\* C13's case: three slices with one pixel spacing, of which only the last
\* differs, in thickness, give None.
C13_Witness ==
    /\ op = "_get_uniform_spacing"
    /\ res = None
    /\ LET s == _get_ct_image_slices(dir)
       IN  /\ Len(s) = 3
           /\ \A k \in 1..3 : s[k].spacing = s[1].spacing
           /\ s[2].thick = s[1].thick
           /\ s[3].thick # s[1].thick

(***************************************************************************)
(* Claims about missing and inconsistent data in one directory.            *)
(***************************************************************************)
NonUniformSpacing(s) == \E k \in 1..Len(s) : SpacingOf(s[k]) # SpacingOf(s[1])

\* C14: when the directory has no image slices, or its image slices do not
\* all have one spacing triple, load_patient_scan returns None: it neither
\* raises nor returns a record.
C14_ScanNoneWithoutUniformSlices ==
    ( /\ op = "load_patient_scan"
      /\ \/ _get_ct_image_slices(dir) = <<>>
         \/ NonUniformSpacing(_get_ct_image_slices(dir)) ) => res = None

\* C14's case: slices that differ in spacing in a directory whose volume
\* and masks load, loaded as a scan.
C14_Witness ==
    /\ op = "load_patient_scan"
    /\ NonUniformSpacing(_get_ct_image_slices(dir))
    /\ load_volume(dir).kind = "ok"
    /\ load_mask(dir).kind = "ok"
    /\ DOMAIN load_mask(dir).val # {}
    /\ res = None

\* C15: for a directory without any .dcm file load_volume, load_mask and
\* load_patient_scan each return None.
C15_NoDicomFilesGivesNone ==
    ( /\ op \in {"load_volume", "load_mask", "load_patient_scan"}
      /\ _get_dicom_slices(dir) = <<>> ) => res = None

\* C15's case: load_mask on a directory that holds files, none of them a
\* .dcm file.
C15_Witness ==
    /\ op = "load_mask"
    /\ dir # <<>>
    /\ _get_dicom_slices(dir) = <<>>
    /\ res = None

NoRtStruct(d) == RtStructFiles(d) = <<>>

\* Image slices that all have the rescale fields and differ in shape.
InconsistentGeometry(d) ==
    LET s == _get_ct_image_slices(d)
    IN  /\ \A k \in 1..Len(s) : s[k].hasRescale
        /\ \E k \in 1..Len(s) : Shape2(s[k].pixel) # Shape2(s[1].pixel)

\* C16 as claimed: a missing structure set in load_mask and an inconsistent
\* geometry in load_volume leave the function as an error, and
\* load_patient_scan turns either into None.
C16_ErrorsLeaveMaskAndVolume ==
    /\ (op = "load_mask" /\ NoRtStruct(dir)) => res.kind = "raise"
    /\ (op = "load_volume" /\ InconsistentGeometry(dir)) => res.kind = "raise"
    /\ (op = "load_patient_scan" /\ (NoRtStruct(dir) \/ InconsistentGeometry(dir))) =>
           res = None

\* C16 as amended: a missing structure set is recovered inside load_mask,
\* which returns None; an inconsistent geometry leaves load_volume as an
\* error; load_patient_scan turns either into None.
C16_VolumeErrorsLeaveMaskErrorsCaught ==
    /\ (op = "load_mask" /\ NoRtStruct(dir)) => res = None
    /\ (op = "load_volume" /\ InconsistentGeometry(dir)) => res.kind = "raise"
    /\ (op = "load_patient_scan" /\ (NoRtStruct(dir) \/ InconsistentGeometry(dir))) =>
           res = None

\* C16's case: slices of different shapes next to a structure set that
\* loads; load_volume raises and the scan is None.
C16_Witness ==
    /\ op = "load_patient_scan"
    /\ InconsistentGeometry(dir)
    /\ ~NonUniformSpacing(_get_ct_image_slices(dir))
    /\ load_volume(dir).kind = "raise"
    /\ load_mask(dir).kind = "ok"
    /\ DOMAIN load_mask(dir).val # {}
    /\ res = None

(***************************************************************************)
(* compute_dataset_stats.  A Python value whose type the code tests or     *)
(* numpy and set() tell apart is a record [py, v]: py is "tuple", "str" or *)
(* "list" and v the sequence of its items (of its characters for a str).   *)
(* A mean is an exact fraction <<numerator, denominator>> in lowest terms. *)
(***************************************************************************)
PyTuple(v) == [py |-> "tuple", v |-> v]
PyStr(v) == [py |-> "str", v |-> v]
PyList(v) == [py |-> "list", v |-> v]

RECURSIVE Gcd(_, _)
Gcd(a, b) == IF b = 0 THEN a ELSE Gcd(b, a % b)

Frac(num, den) == <<num \div Gcd(num, den), den \div Gcd(num, den)>>

RECURSIVE SumSeq(_)
SumSeq(s) == IF s = <<>> THEN 0 ELSE s[1] + SumSeq(Tail(s))

\* array.shape of a 3D array
Shape3(a) == <<Len(a), Len(a[1]), Len(a[1][1])>>

\* curried.keyfilter(lambda k: k in [...])
StatKeys == {"volume", "spacings", "dimension_original", "manufacturer", "scanner"}

KeyFiltered(scan) == [k \in (DOMAIN scan) \cap StatKeys |-> scan[k]]

\* curried.update_in(keys=["volume"], func=_.shape)
WithShape(d) == [d EXCEPT !["volume"] = PyTuple(Shape3(@))]

\* lambda x, y: [x] + [y] if not isinstance(x, list) else x + [y]
ListMerge(x, y) == IF x.py = "list" THEN PyList(Append(x.v, y)) ELSE PyList(<<x, y>>)

\* merge_with_reduce(func=ListMerge): reduce(merge_dicts, dicts) without an
\* initial value, so a single dictionary is returned as it is, func never
\* applied, and an empty list raises TypeError.  merge_dicts is
\* tz.merge_with(star(func), dict1, dict2) on dictionaries of the same keys.
merge_with_reduce(dicts) ==
    LET merge_dicts(dict1, dict2) ==
            [k \in DOMAIN dict1 |-> ListMerge(dict1[k], dict2[k])]
        acc[n \in 1..Len(dicts)] ==
            IF n = 1 THEN dicts[1] ELSE merge_dicts(acc[n - 1], dicts[n])
    IN  IF dicts = <<>> THEN Raise ELSE Ok(acc[Len(dicts)])

\* np.array(x).mean(axis=0): a list of triples is a 2D array and gives the
\* vector of its column means; a single triple is a 1D array and gives the
\* one mean of its three numbers.
NpMeanAxis0(x) ==
    IF x.py = "list"
    THEN [py |-> "vector",
          v |-> [j \in 1..Len(x.v[1].v) |->
                    Frac(SumSeq([i \in 1..Len(x.v) |-> x.v[i].v[j]]), Len(x.v))]]
    ELSE [py |-> "scalar", v |-> Frac(SumSeq(x.v), Len(x.v))]

\* A plausible slip: the merged list returned without set().
Mutant_set_as_list(x) ==
    IF x.py = "list" THEN x.v ELSE [i \in 1..Len(x.v) |-> PyStr(<<x.v[i]>>)]

\* set(x): the items of a list; the characters of a str.
PySet(x) ==
    IF x.py = "list" THEN {x.v[i] : i \in 1..Len(x.v)}
    ELSE {PyStr(<<x.v[i]>>) : i \in 1..Len(x.v)}

rename_key(old_name, new_name, dictionary) ==
    [key \in {IF k = old_name THEN new_name ELSE k : k \in DOMAIN dictionary} |->
        IF key = new_name /\ old_name \in DOMAIN dictionary
        THEN dictionary[old_name] ELSE dictionary[key]]

compute_dataset_stats(ds) ==
    LET dicts == [i \in 1..Len(ds) |-> WithShape(KeyFiltered(ds[i]))]
        merged == merge_with_reduce(dicts)
    IN  IF merged.kind = "raise" THEN Raise
        ELSE Ok(rename_key("volume", "dimension_actual",
                    [merged.val EXCEPT !["spacings"] = NpMeanAxis0(@),
                                       !["dimension_original"] = NpMeanAxis0(@),
                                       !["volume"] = NpMeanAxis0(@),
                                       !["manufacturer"] = PySet(@),
                                       !["scanner"] = PySet(@)]))

\* The scans statistics are computed of: records with the keys of a scan
\* record, of two manufacturers and three scanner models.
Scan(id, shape, dims, sp, man, scn) ==
    [patient_id |-> id,
     volume |-> Ramp3(shape[1], shape[2], shape[3]),
     masks |-> <<>>,
     dimension_original |-> PyTuple(dims),
     spacings |-> PyTuple(sp),
     manufacturer |-> PyStr(man),
     scanner |-> PyStr(scn)]

StatScans ==
    { Scan(1, <<1, 2, 3>>, <<1, 2, 2>>, <<2, 1, 1>>, <<"G", "E">>, <<"S", "1">>),
      Scan(2, <<2, 3, 4>>, <<2, 3, 4>>, <<5, 2, 1>>, <<"G", "E">>, <<"S", "2">>),
      Scan(3, <<1, 1, 2>>, <<1, 1, 2>>, <<2, 1, 1>>, <<"S", "i">>, <<"S", "3">>),
      Scan(4, <<1, 2, 1>>, <<4, 2, 1>>, <<1, 3, 2>>, <<"S", "i">>, <<"S", "1">>) }

DoComputeDatasetStats ==
    /\ stats.kind = "none"
    /\ stats' = compute_dataset_stats(dataset)
    /\ UNCHANGED <<dataset, dirVars, flipVars, sweepVars, purgeVars, raceVars, pmapVars, curryVars, prepVars>>

NextStats == DoComputeDatasetStats

InitStats ==
    /\ dataset \in SeqsUpTo(StatScans, MaxScans) /\ stats = None
    /\ IdleDir /\ IdleFlip /\ IdleSweep /\ IdlePurge /\ IdleRace /\ IdlePmap /\ IdleCurry /\ IdlePrep

SpecStats == InitStats /\ [][NextStats]_vars

(***************************************************************************)
(* Claims about compute_dataset_stats.                                     *)
(***************************************************************************)
\* The componentwise arithmetic mean of one triple per scan.
TripleMean(triples) ==
    [py |-> "vector",
     v |-> [j \in 1..3 |->
               Frac(SumSeq([i \in 1..Len(triples) |-> triples[i][j]]), Len(triples))]]

\* C17: for one or more scans, dimension_original, dimension_actual and
\* spacings are each the 3-vector of the componentwise arithmetic means of
\* the scans' triples (dimension_actual: of the volumes' shapes).
C17_StatsAreComponentwiseMeans ==
    (stats.kind # "none" /\ Len(dataset) >= 1) =>
        /\ stats.kind = "ok"
        /\ stats.val.dimension_original =
               TripleMean([i \in 1..Len(dataset) |-> dataset[i].dimension_original.v])
        /\ stats.val.dimension_actual =
               TripleMean([i \in 1..Len(dataset) |-> Shape3(dataset[i].volume)])
        /\ stats.val.spacings =
               TripleMean([i \in 1..Len(dataset) |-> dataset[i].spacings.v])

\* C18: for one or more scans, manufacturer is the set of the scans'
\* manufacturer strings and scanner the set of their scanner-model strings.
C18_StatsAreSetsOfDistinctStrings ==
    (stats.kind # "none" /\ Len(dataset) >= 1) =>
        /\ stats.kind = "ok"
        /\ stats.val.manufacturer = {dataset[i].manufacturer : i \in 1..Len(dataset)}
        /\ stats.val.scanner = {dataset[i].scanner : i \in 1..Len(dataset)}

PathOf(e) == <<e.sub, e.file.tag>>

\* list_files(directory): the path of every file under the directory, in
\* walk order.
list_files(t) == [i \in 1..Len(t) |-> PathOf(t[i])]

EntryAt(t, path) == CHOOSE e \in {t[i] : i \in 1..Len(t)} : PathOf(e) = path

\* os.remove(path)
Remove(t, path) == SelectSeq(t, LAMBDA e : PathOf(e) # path)

\* A plausible slip: the CT test left out, only structure sets kept.
Mutant_keep_only_rt(f) == ~_dicom_type_is(f, RT_STRUCTURE_SET)

\* A plausible slip: `or` in place of `and` between the two type tests.
Mutant_not_both_types(f) ==
    ~_dicom_type_is(f, CT_IMAGE) \/ ~_dicom_type_is(f, RT_STRUCTURE_SET)

\* not _dicom_type_is(.., CT_IMAGE) and not _dicom_type_is(.., RT_STRUCTURE_SET)
NotKeepType(f) ==
    ~_dicom_type_is(f, CT_IMAGE) /\ ~_dicom_type_is(f, RT_STRUCTURE_SET)

\* A plausible slip: the filter on the file name left out.
Mutant_any_name(t, path) == TRUE

\* path.endswith(".dcm")
EndsWithDcm(t, path) == EntryAt(t, path).file.dcm

\* What the pipeline does with one path: nothing when the name does not end
\* in .dcm; otherwise dcmread for the CT test, dcmread again for the
\* structure-set test when the file is not CT, and os.remove when it is
\* neither.  An exception of dcmread or os.remove leaves the function.
PurgeOne(t, path) ==
    LET e == EntryAt(t, path)
        \* `and` does not evaluate its second dcmread for a CT file
        reads == IF _dicom_type_is(e.file, CT_IMAGE) THEN <<path>> ELSE <<path, path>>
    IN  IF ~EndsWithDcm(t, path) THEN [tree |-> t, kind |-> "next", decoded |-> <<>>]
        ELSE IF ~e.readable THEN [tree |-> t, kind |-> "raise", decoded |-> <<path>>]
        ELSE IF ~NotKeepType(e.file)
             THEN [tree |-> t, kind |-> "next", decoded |-> reads]
        ELSE IF ~e.removable THEN [tree |-> t, kind |-> "raise", decoded |-> reads]
        ELSE [tree |-> Remove(t, path), kind |-> "next", decoded |-> reads]

\* list(map(os.remove, filter(type test, filter(endswith .dcm, files)))):
\* the files are taken one at a time, each decoded and removed before the
\* next is looked at; after an exception the files removed so far are gone.
RECURSIVE PurgeFrom(_, _, _)
PurgeFrom(t, files, k) ==
    IF k > Len(files) THEN [tree |-> t, kind |-> "ok", decoded |-> <<>>]
    ELSE LET one == PurgeOne(t, files[k])
             rest == PurgeFrom(one.tree, files, k + 1)
         IN  IF one.kind = "raise" THEN [one EXCEPT !.kind = "raise"]
             ELSE [rest EXCEPT !.decoded = one.decoded \o @]

purge_dicom_dir(t) == PurgeFrom(t, list_files(t), 1)

\* Trees of up to MaxFiles files, the first few in the directory itself and
\* the rest in a subdirectory: CT and structure-set files, files of another
\* type and without the type field, a file of another type whose name does
\* not end in .dcm, one that cannot be decoded and one that cannot be
\* removed.
TreeKinds ==
    {"ct", "rt", "dose", "no_uid", "dose_not_dcm", "ct_not_dcm", "unreadable", "locked_dose"}

TreeFile(kind, i) ==
    CASE kind = "ct" -> CTFile(i, 1, 1, i, IOP_HEAD, 1, <<1, 1>>, TRUE)
      [] kind = "rt" -> RTFile(i, TRUE, <<>>)
      [] kind = "no_uid" -> OtherFile(i, TRUE, NO_UID)
      [] kind = "dose_not_dcm" -> OtherFile(i, FALSE, RT_DOSE)
      [] kind = "ct_not_dcm" ->
             [CTFile(i, 1, 1, i, IOP_HEAD, 1, <<1, 1>>, TRUE) EXCEPT !.dcm = FALSE]
      [] OTHER -> OtherFile(i, TRUE, RT_DOSE)

TreeEntry(kind, i, sub) ==
    [file |-> TreeFile(kind, i), sub |-> sub,
     readable |-> kind # "unreadable", removable |-> kind # "locked_dose"]

Trees ==
    { [i \in 1..Len(q) |-> TreeEntry(q[i], i, IF i <= c THEN "" ELSE "sub")] :
        q \in SeqsUpTo(TreeKinds, MaxFiles), c \in 0..MaxFiles }

DoPurgeDicomDir ==
    /\ purged = "idle"
    /\ tree' = purge_dicom_dir(tree).tree
    /\ purged' = purge_dicom_dir(tree).kind
    /\ decoded' = purge_dicom_dir(tree).decoded
    /\ UNCHANGED <<tree0, dirVars, flipVars, sweepVars, statsVars, raceVars, pmapVars, curryVars, prepVars>>

NextPurge == DoPurgeDicomDir

InitPurge ==
    /\ tree0 \in Trees /\ tree = tree0 /\ purged = "idle" /\ decoded = <<>>
    /\ IdleDir /\ IdleFlip /\ IdleSweep /\ IdleStats /\ IdleRace /\ IdlePmap /\ IdleCurry /\ IdlePrep

SpecPurge == InitPurge /\ [][NextPurge]_vars

(***************************************************************************)
(* Claims about purge_dicom_dir.                                           *)
(***************************************************************************)
DcmEntries(t) == SelectSeq(t, LAMBDA e : e.file.dcm)

IsKeepType(e) == e.file.uid \in {CT_IMAGE, RT_STRUCTURE_SET}

Removable(t) == \A i \in 1..Len(t) : t[i].removable

\* C21: a file dcmread fails on does not end the sweep: the file counts as
\* not of a kept type and is deleted, and every other .dcm file that is
\* neither CT nor structure set is deleted too (here: whenever every file
\* can be removed).
C21_PurgeSurvivesDecodeErrors ==
    (purged # "idle" /\ Removable(tree0)) =>
        /\ purged = "ok"
        /\ DcmEntries(tree) =
               SelectSeq(DcmEntries(tree0), LAMBDA e : e.readable /\ IsKeepType(e))

\* C29: purge_dicom_dir never calls dcmread on a file whose name does not
\* end in .dcm and never deletes one, whatever its type and however the
\* call ends.
C29_PurgeLeavesOtherNamesAlone ==
    purged # "idle" =>
        /\ SelectSeq(tree, LAMBDA e : ~e.file.dcm) = SelectSeq(tree0, LAMBDA e : ~e.file.dcm)
        /\ \A k \in 1..Len(decoded) : EntryAt(tree0, decoded[k]).file.dcm

\* C29's case: a tree with a CT file and a file of another type, neither
\* named .dcm, and a .dcm file that is deleted.
C29_Witness ==
    /\ purged = "ok"
    /\ \E i \in 1..Len(tree0) : ~tree0[i].file.dcm /\ tree0[i].file.uid = CT_IMAGE
    /\ \E i \in 1..Len(tree0) : ~tree0[i].file.dcm /\ tree0[i].file.uid = RT_DOSE
    /\ Len(tree) < Len(tree0)
    /\ decoded # <<>>

(***************************************************************************)
(* purge_dicom_dir and load_volume running on one tree at the same time.   *)
(* Each lists the tree when it starts and then takes the listed paths one  *)
(* at a time: purge_dicom_dir as PurgeOne says, load_volume decoding every *)
(* .dcm file (sorted() in _get_ct_image_slices pulls them all) before it   *)
(* builds the volume from the records.  dcmread raises on a file that is   *)
(* no longer there.                                                        *)
(***************************************************************************)
Present(t, path) == \E i \in 1..Len(t) : PathOf(t[i]) = path

PurgeList ==
    /\ purged = "idle"
    /\ purged' = "running"
    /\ pfiles' = list_files(tree)
    /\ UNCHANGED <<tree, tree0, decoded, lfiles, dirVars, flipVars, sweepVars, statsVars, pmapVars, curryVars, prepVars>>

PurgeFile ==
    /\ purged = "running"
    /\ pfiles # <<>>
    /\ LET one == PurgeOne(tree, Head(pfiles))
       IN  /\ tree' = one.tree
           /\ decoded' = decoded \o one.decoded
           /\ purged' = IF one.kind = "raise" THEN "raise" ELSE "running"
           /\ pfiles' = IF one.kind = "raise" THEN <<>> ELSE Tail(pfiles)
    /\ UNCHANGED <<tree0, lfiles, dirVars, flipVars, sweepVars, statsVars, pmapVars, curryVars, prepVars>>

PurgeReturn ==
    /\ purged = "running"
    /\ pfiles = <<>>
    /\ purged' = "ok"
    /\ UNCHANGED <<tree, tree0, decoded, raceVars, dirVars, flipVars, sweepVars, statsVars, pmapVars, curryVars, prepVars>>

LoadList ==
    /\ op = "idle"
    /\ op' = "reading"
    /\ lfiles' = list_files(tree)
    /\ UNCHANGED <<dir, res, pfiles, purgeVars, flipVars, sweepVars, statsVars, pmapVars, curryVars, prepVars>>

\* The next listed file: taken as it is when its name does not end in .dcm,
\* decoded otherwise.
LoadRead ==
    /\ op = "reading"
    /\ lfiles # <<>>
    /\ LET path == Head(lfiles)
           failed == /\ EndsWithDcm(tree0, path)
                     /\ (~Present(tree, path) \/ ~EntryAt(tree0, path).readable)
       IN  /\ op' = IF failed THEN "load_volume" ELSE "reading"
           /\ res' = IF failed THEN Raise ELSE res
           /\ dir' = IF failed THEN dir ELSE Append(dir, EntryAt(tree0, path).file)
           /\ lfiles' = IF failed THEN <<>> ELSE Tail(lfiles)
    /\ UNCHANGED <<pfiles, purgeVars, flipVars, sweepVars, statsVars, pmapVars, curryVars, prepVars>>

LoadReturn ==
    /\ op = "reading"
    /\ lfiles = <<>>
    /\ op' = "load_volume"
    /\ res' = load_volume(dir)
    /\ UNCHANGED <<dir, raceVars, purgeVars, flipVars, sweepVars, statsVars, pmapVars, curryVars, prepVars>>

NextRace ==
    \/ PurgeList \/ PurgeFile \/ PurgeReturn
    \/ LoadList \/ LoadRead \/ LoadReturn

\* Trees of up to MaxFiles files in one directory: CT and structure-set
\* files, files of another type and without the type field, and a file that
\* cannot be decoded.
RaceKinds == {"ct", "rt", "dose", "no_uid", "unreadable"}

RaceTrees ==
    { [i \in 1..Len(q) |-> TreeEntry(q[i], i, "")] : q \in SeqsUpTo(RaceKinds, MaxFiles) }

InitRace ==
    /\ tree0 \in RaceTrees /\ tree = tree0 /\ purged = "idle" /\ decoded = <<>>
    /\ IdleDir /\ IdleRace /\ IdleFlip /\ IdleSweep /\ IdleStats /\ IdlePmap /\ IdleCurry /\ IdlePrep

SpecRace == InitRace /\ [][NextRace]_vars

\* What load_volume returns on a tree nothing else touches.
LoadOnTree(t) ==
    IF \E i \in 1..Len(t) : t[i].file.dcm /\ ~t[i].readable THEN Raise
    ELSE load_volume([i \in 1..Len(t) |-> t[i].file])

\* C28: however the steps of purge_dicom_dir and load_volume interleave,
\* load_volume raises or returns what it returns on the tree as it was
\* before the purge.
C28_LoadRacingPurgeRaisesOrSameVolume ==
    op = "load_volume" => (res.kind = "raise" \/ res = LoadOnTree(tree0))

\* C28's case: the purge deleted a file before load_volume listed the tree,
\* and load_volume returned a volume of two slices.
C28_Witness ==
    /\ op = "load_volume"
    /\ res.kind = "ok"
    /\ Len(res.val[1][1]) = 2
    /\ Len(dir) < Len(tree0)
    /\ purged = "ok"

(***************************************************************************)
(* Claims about load_mask with several structure sets and with organ names *)
(* that share a key.                                                       *)
(***************************************************************************)
\* C22: with more than one structure-set file, a mapping load_mask returns
\* is the mapping of the first structure set in listing order alone, holds
\* no organ of another structure set, and the warning was logged.
C22_MaskFromFirstStructureSet ==
    (op = "load_mask" /\ Len(RtStructFiles(dir)) > 1) =>
        /\ HasChosenRtStruct(dir) => res.kind = "ok"
        /\ res.kind = "ok" =>
               /\ res = load_mask(<<RtStructFiles(dir)[1]>>)
               /\ DOMAIN res.val \subseteq
                      { _standardise_roi_name(RtStructFiles(dir)[1].rois[i].name) :
                          i \in 1..Len(RtStructFiles(dir)[1].rois) }
               /\ load_mask_warns(dir)

\* C22's case: two structure sets that both build, the first with an organ
\* that is extracted and the second with another organ that is too.
C22_Witness ==
    /\ op = "load_mask"
    /\ Len(RtStructFiles(dir)) = 2
    /\ HasChosenRtStruct(dir)
    /\ res.kind = "ok"
    /\ DOMAIN res.val # {}
    /\ load_mask(<<RtStructFiles(dir)[2]>>).kind = "ok"
    /\ DOMAIN load_mask(<<RtStructFiles(dir)[2]>>).val # {}
    /\ DOMAIN load_mask(<<RtStructFiles(dir)[2]>>).val \cap DOMAIN res.val = {}

\* C25: with more than one structure-set file, no extraction object is
\* built for the files after the first, so load_mask returns what it
\* returns for the first structure set alone, also when building the
\* object of a later file raises.
C25_IgnoredStructureSetsNotBuilt ==
    (op = "load_mask" /\ Len(RtStructFiles(dir)) > 1) =>
        res = load_mask(<<RtStructFiles(dir)[1]>>)

\* C30: each key of the mapping load_mask returns holds the flipped mask of
\* the last organ, in the structure set's order, that was extracted and
\* whose name standardises to the key.
C30_LastOrganWinsSharedKey ==
    (op = "load_mask" /\ res.kind = "ok" /\ HasChosenRtStruct(dir)) =>
        LET rois == ChosenRois(dir)
            hits(k) == {i \in 1..Len(rois) : rois[i].ok /\ _standardise_roi_name(rois[i].name) = k}
        IN  /\ DOMAIN res.val = {_standardise_roi_name(rois[i].name) :
                                    i \in {j \in 1..Len(rois) : rois[j].ok}}
            /\ \A k \in DOMAIN res.val :
                   \E i \in hits(k) :
                       /\ \A j \in hits(k) : j <= i
                       /\ res.val[k] = _flip_array(rois[i].mask)

\* C30's case: three organs extracted, two of them with one key and
\* different masks, the third with another key.
C30_Witness ==
    /\ op = "load_mask"
    /\ res.kind = "ok"
    /\ HasChosenRtStruct(dir)
    /\ Len(ChosenRois(dir)) = 3
    /\ \A i \in 1..3 : ChosenRois(dir)[i].ok
    /\ Cardinality(DOMAIN res.val) = 2
    /\ _standardise_roi_name(ChosenRois(dir)[1].name)
           = _standardise_roi_name(ChosenRois(dir)[2].name)
    /\ ChosenRois(dir)[1].name # ChosenRois(dir)[2].name

(***************************************************************************)
(* Claims about the scan record's dimensions.                              *)
(***************************************************************************)
\* C27: in a scan record dimension_original is (Rows, Columns, n) with Rows
\* and Columns those of the first image slice in slice order and n the
\* number of .dcm CT records of positive thickness, and n is the length of
\* the volume's last axis.
C27_DimensionOriginalMatchesSlices ==
    (op = "load_patient_scan" /\ res.kind = "ok") =>
        LET s == _get_ct_image_slices(dir)
            n == Cardinality({i \in 1..Len(dir) :
                     dir[i].dcm /\ dir[i].uid = CT_IMAGE /\ dir[i].thick > 0})
        IN  /\ res.val.dimension_original = <<Len(s[1].pixel), Len(s[1].pixel[1]), n>>
            /\ \A h \in 1..Len(res.val.volume) : \A w \in 1..Len(res.val.volume[h]) :
                   Len(res.val.volume[h][w]) = n

\* C27's case: a scan of two slices three columns wide from a directory
\* that also holds a slice of thickness zero.
C27_Witness ==
    /\ op = "load_patient_scan"
    /\ res.kind = "ok"
    /\ res.val.dimension_original = <<1, 3, 2>>
    /\ Len(SelectSeq(dir, IsCtSlice)) = 3

(***************************************************************************)
(* pmap (turtwig/futils/parallel.py).                                      *)
(*                                                                         *)
(* pmap makes a pathos pool of n_workers workers, process or thread, and   *)
(* returns what pool.imap(func, iterable) returns: an iterator.  The pool  *)
(* queues one task per element, in the order of the iterable; a free       *)
(* worker takes the task at the head of the queue; running tasks finish in *)
(* any order.  The iterator of imap keeps the results that arrived by      *)
(* their index and yields the result of index k only as the k-th element.  *)
(* Leaving the with block does not stop the pool (pathos keeps its pools). *)
(***************************************************************************)
Funcs == {"double", "square"}

ApplyFunc(f, x) == IF f = "double" THEN x * 2 ELSE x * x

Executors == {"process", "thread"}

\* pool.uimap in place of pool.imap: results are yielded as they arrive.
Mutant_uimap(fin, y) ==
    IF Len(y) < Len(fin) THEN Len(y) + 1 ELSE 0

\* The place in the finished tasks of the result the iterator's next()
\* returns, 0 when it has to wait for it.
imap_next(fin, y) ==
    IF \E k \in 1..Len(fin) : fin[k].index = Len(y) + 1
    THEN CHOOSE k \in 1..Len(fin) : fin[k].index = Len(y) + 1
    ELSE 0

Iterables == SeqsUpTo({1, 2}, MaxTasks)

pmap(f, it, n, e) ==
    /\ call = <<>>
    /\ call' = [func |-> f, iterable |-> it, n_workers |-> n, executor |-> e]
    /\ UNCHANGED <<taken, busy, finished, yielded, exhausted, curryVars, prepVars>>
    /\ UNCHANGED <<dirVars, flipVars, sweepVars, purgeVars, statsVars, raceVars, curryVars, prepVars>>

DoPmap ==
    \E f \in Funcs, it \in Iterables, n \in 1..MaxWorkers, e \in Executors :
        pmap(f, it, n, e)

\* A free worker takes the next queued task.
WorkerTake ==
    /\ call # <<>>
    /\ taken < Len(call.iterable)
    /\ Cardinality(busy) < call.n_workers
    /\ taken' = taken + 1
    /\ busy' = busy \cup {taken + 1}
    /\ UNCHANGED <<call, finished, yielded, exhausted, curryVars, prepVars>>
    /\ UNCHANGED <<dirVars, flipVars, sweepVars, purgeVars, statsVars, raceVars, curryVars, prepVars>>

\* A running task finishes: its worker sends func(element) with its index.
WorkerFinish ==
    /\ \E i \in busy :
        /\ busy' = busy \ {i}
        /\ finished' = Append(finished,
               [index |-> i, value |-> ApplyFunc(call.func, call.iterable[i])])
    /\ UNCHANGED <<call, taken, yielded, exhausted, curryVars, prepVars>>
    /\ UNCHANGED <<dirVars, flipVars, sweepVars, purgeVars, statsVars, raceVars, curryVars, prepVars>>

\* The consumer's next() on the returned iterator, when it does not block.
IterNext ==
    /\ call # <<>>
    /\ ~exhausted
    /\ IF Len(yielded) = Len(call.iterable)
       THEN exhausted' = TRUE /\ yielded' = yielded
       ELSE /\ imap_next(finished, yielded) # 0
            /\ yielded' = Append(yielded, finished[imap_next(finished, yielded)].value)
            /\ exhausted' = exhausted
    /\ UNCHANGED <<call, taken, busy, finished, curryVars, prepVars>>
    /\ UNCHANGED <<dirVars, flipVars, sweepVars, purgeVars, statsVars, raceVars, curryVars, prepVars>>

NextPmap == DoPmap \/ WorkerTake \/ WorkerFinish \/ IterNext

InitPmap ==
    /\ IdleDir /\ IdleFlip /\ IdleSweep /\ IdlePurge /\ IdleStats /\ IdleRace /\ IdlePmap /\ IdleCurry /\ IdlePrep

SpecPmap == InitPmap /\ [][NextPmap]_vars

\* C23: what the iterator returned by pmap has yielded is func of the
\* elements of the iterable, in the order of the iterable, and it is
\* exhausted only after one result per element: for every number of
\* workers, both executors and every order in which the tasks finish.
C23_PmapYieldsInInputOrder ==
    call # <<>> =>
        /\ Len(yielded) <= Len(call.iterable)
        /\ yielded = [i \in 1..Len(yielded) |-> ApplyFunc(call.func, call.iterable[i])]
        /\ exhausted => Len(yielded) = Len(call.iterable)

\* C23's case: a process pool of several workers, the second task finished
\* before the first, their results differ, and the iterator was consumed to
\* its end.
C23_Witness ==
    /\ call # <<>>
    /\ call.executor = "process"
    /\ call.n_workers >= 2
    /\ exhausted
    /\ Len(finished) >= 2
    /\ finished[1].index = 2
    /\ finished[1].value # finished[2].value


(***************************************************************************)
(* curry (turtwig/futils/decorator.py).                                    *)
(*                                                                         *)
(* A function is the sequence of its parameters, each with its name, its   *)
(* kind as inspect reports it and whether it has a default.  Positional    *)
(* arguments are a sequence of values, keyword arguments a function from   *)
(* names to values.  Calling a function binds the arguments to its         *)
(* parameters as Python does and returns the bound values (the functions   *)
(* of the tests return their parameters), or raises TypeError: "invalid"   *)
(* for arguments no further argument could make right, "missing" when      *)
(* only mandatory parameters are left without a value.                     *)
(***************************************************************************)
Param(n, k, d) == [name |-> n, kind |-> k, dflt |-> d]

NamedKinds == {"POSITIONAL_ONLY", "POSITIONAL_OR_KEYWORD", "KEYWORD_ONLY"}

TypeError(why) == [kind |-> "raise", val |-> "TypeError", why |-> why]

EmptyKwargs == [n \in {} |-> 0]

NoArgs == [args |-> <<>>, kwargs |-> EmptyKwargs]

NothingGiven == [args |-> <<>>, kwargs |-> EmptyKwargs, repeated |-> FALSE]

\* f(*args, **kwargs)
CallF(f, args, kwargs) ==
    LET positional == SelectSeq(f, LAMBDA p : p.kind \in {"POSITIONAL_ONLY", "POSITIONAL_OR_KEYWORD"})
        hasVarPos == \E i \in 1..Len(f) : f[i].kind = "VAR_POSITIONAL"
        hasVarKw == \E i \in 1..Len(f) : f[i].kind = "VAR_KEYWORD"
        npos == IF Len(args) < Len(positional) THEN Len(args) ELSE Len(positional)
        byPos == {positional[i].name : i \in 1..npos}
        byName == {f[i].name : i \in {j \in 1..Len(f) :
                      f[j].kind \in {"POSITIONAL_OR_KEYWORD", "KEYWORD_ONLY"}}}
        named == {i \in 1..Len(f) : f[i].kind \in NamedKinds}
        isBound(n) == n \in byPos \/ (n \in byName /\ n \in DOMAIN kwargs)
        valueOf(n) ==
            IF n \in byPos
            THEN args[CHOOSE i \in 1..npos : positional[i].name = n]
            ELSE IF n \in byName /\ n \in DOMAIN kwargs THEN kwargs[n]
            ELSE "default"
    IN  IF \/ Len(args) > Len(positional) /\ ~hasVarPos
           \/ \E n \in DOMAIN kwargs : n \in byPos /\ n \in byName
           \/ \E n \in DOMAIN kwargs : n \notin byName /\ ~hasVarKw
        THEN TypeError("invalid")
        ELSE IF \E i \in named : ~f[i].dflt /\ ~isBound(f[i].name)
        THEN TypeError("missing")
        ELSE Ok([params |-> [n \in {f[i].name : i \in named} |-> valueOf(n)],
                 varargs |-> SubSeq(args, npos + 1, Len(args)),
                 varkw |-> [n \in DOMAIN kwargs \ byName |-> kwargs[n]]])

\* required_args: the names of the parameters without default, of the three
\* named kinds, in the order of the signature.
required_args(f) ==
    LET required == SelectSeq(f, LAMBDA p : ~p.dflt /\ p.kind \in NamedKinds)
    IN  [i \in 1..Len(required) |-> required[i].name]

\* The condition under which curried calls f.
Evaluates(required, args, kwargs) ==
    LET remaining_args == SelectSeq(required, LAMBDA k : k \notin DOMAIN kwargs)
    IN  remaining_args = <<>> \/ Len(args) >= Len(remaining_args)

\* f(*args, *args2, **kwargs, **kwargs2): the arguments of both calls, and
\* TypeError for a keyword given twice.
Accumulate(h, args2, kwargs2) ==
    IF DOMAIN h.kwargs \cap DOMAIN kwargs2 # {} THEN TypeError("invalid")
    ELSE Ok([args |-> h.args \o args2,
             kwargs |-> [n \in DOMAIN h.kwargs \cup DOMAIN kwargs2 |->
                            IF n \in DOMAIN kwargs2 THEN kwargs2[n] ELSE h.kwargs[n]]])

\* The functions of the tests of curry, and two with a mandatory
\* keyword-only parameter after an optional positional one.
Signatures ==
    { <<Param("a", "POSITIONAL_OR_KEYWORD", FALSE), Param("b", "POSITIONAL_OR_KEYWORD", FALSE)>>,
      <<Param("a", "POSITIONAL_OR_KEYWORD", FALSE), Param("b", "POSITIONAL_OR_KEYWORD", FALSE),
        Param("args", "VAR_POSITIONAL", FALSE), Param("c", "KEYWORD_ONLY", TRUE),
        Param("kwargs", "VAR_KEYWORD", FALSE)>>,
      <<Param("a", "POSITIONAL_ONLY", FALSE), Param("b", "POSITIONAL_ONLY", FALSE),
        Param("c", "POSITIONAL_OR_KEYWORD", FALSE)>>,
      <<Param("a", "KEYWORD_ONLY", FALSE), Param("b", "KEYWORD_ONLY", TRUE)>>,
      <<Param("a", "POSITIONAL_OR_KEYWORD", FALSE), Param("b", "POSITIONAL_OR_KEYWORD", TRUE),
        Param("c", "KEYWORD_ONLY", FALSE)>>,
      <<Param("a", "POSITIONAL_OR_KEYWORD", FALSE), Param("args", "VAR_POSITIONAL", FALSE),
        Param("c", "KEYWORD_ONLY", FALSE)>> }

ParamNames == {"a", "b", "c", "d"}

KwValue == [n \in ParamNames |->
               IF n = "a" THEN 11 ELSE IF n = "b" THEN 12 ELSE IF n = "c" THEN 13 ELSE 14]

\* curry(f)
DoCurry ==
    /\ wrapped = <<>>
    /\ \E f \in Signatures :
        wrapped' = [f |-> f, required_args |-> required_args(f)]
    /\ held' = NoArgs
    /\ given' = NothingGiven
    /\ UNCHANGED <<ncalls, fcalls, ret, prepVars>>
    /\ UNCHANGED <<dirVars, flipVars, sweepVars, purgeVars, statsVars, raceVars, pmapVars, prepVars>>

\* One call of curried, or of the function the previous call returned.
DoCurried ==
    /\ wrapped # <<>>
    /\ ret.kind \in {"idle", "function"}
    /\ ncalls < MaxCalls
    /\ \E args2 \in SeqsUpTo({1, 2}, MaxArgs), names \in SUBSET ParamNames :
        LET kwargs2 == [n \in names |-> KwValue[n]]
            acc == Accumulate(held, args2, kwargs2)
        IN  /\ Len(given.args) + Len(args2) <= MaxArgs
            /\ given' = [args |-> given.args \o args2,
                         kwargs |-> [n \in DOMAIN given.kwargs \cup names |-> KwValue[n]],
                         repeated |-> given.repeated \/ DOMAIN given.kwargs \cap names # {}]
            /\ IF acc.kind = "raise"
               THEN ret' = acc /\ held' = held /\ fcalls' = fcalls
               ELSE IF Evaluates(wrapped.required_args, acc.val.args, acc.val.kwargs)
               THEN /\ ret' = CallF(wrapped.f, acc.val.args, acc.val.kwargs)
                    /\ fcalls' = fcalls + 1
                    /\ held' = held
               ELSE /\ ret' = [kind |-> "function"]
                    /\ held' = acc.val
                    /\ fcalls' = fcalls
    /\ ncalls' = ncalls + 1
    /\ UNCHANGED wrapped
    /\ UNCHANGED <<dirVars, flipVars, sweepVars, purgeVars, statsVars, raceVars, pmapVars, prepVars>>

NextCurry == DoCurry \/ DoCurried

InitCurry ==
    /\ IdleDir /\ IdleFlip /\ IdleSweep /\ IdlePurge /\ IdleStats /\ IdleRace /\ IdlePmap /\ IdleCurry /\ IdlePrep

SpecCurry == InitCurry /\ [][NextCurry]_vars


\* The arguments given so far are the start of a complete, valid argument
\* list: no keyword was given twice, and calling f with them is right or
\* only misses mandatory parameters.
StartOfValidList ==
    /\ ~given.repeated
    /\ LET o == CallF(wrapped.f, given.args, given.kwargs)
       IN  o.kind = "ok" \/ o.why = "missing"

\* C24: over successive calls that split a complete, valid argument list, f
\* is called only once all its mandatory parameters were given; every
\* earlier call returned a function holding the arguments given so far; the
\* call that evaluates returns what f returns on all the arguments given.
C24_CurryEvaluatesOnlyWhenComplete ==
    (wrapped # <<>> /\ ncalls > 0 /\ StartOfValidList) =>
        /\ fcalls <= 1
        /\ fcalls = 1 => CallF(wrapped.f, given.args, given.kwargs).kind = "ok"
        /\ fcalls = 1 => ret = CallF(wrapped.f, given.args, given.kwargs)
        /\ fcalls = 0 => (ret.kind = "function" /\ held.args = given.args
                                           /\ held.kwargs = given.kwargs)

\* The same for the functions with no mandatory keyword-only parameter
\* behind positional room (an optional positional parameter or *args).
NoKeywordOnlyBehindRoom ==
    LET f == wrapped.f
    IN  ~ /\ \E i \in 1..Len(f) : f[i].kind = "KEYWORD_ONLY" /\ ~f[i].dflt
          /\ \E i \in 1..Len(f) :
                \/ f[i].kind = "VAR_POSITIONAL"
                \/ f[i].kind \in {"POSITIONAL_ONLY", "POSITIONAL_OR_KEYWORD"} /\ f[i].dflt

\* For those functions the statement of C24 holds.
CurryCompleteWithoutKeywordOnlyBehindRoom ==
    (wrapped # <<>> /\ NoKeywordOnlyBehindRoom) => C24_CurryEvaluatesOnlyWhenComplete

(***************************************************************************)
(* preprocess_mask (turtwig/data/numpy.py).                                *)
(*                                                                         *)
(* A mask dictionary is the sequence of its (ROI name, mask) pairs in      *)
(* insertion order, the names all different.  ORGAN_MATCHES is the         *)
(* sequence of its (organ, ROI names) pairs.  The array of shape           *)
(* (C, H, W, D) is the sequence of its C channels.  Resampling is the      *)
(* work of SimpleITK: a resampled array is kept as the array it came from  *)
(* with the spacings it was resampled for.                                 *)
(***************************************************************************)
CharCode(ch) ==
    IF ch = "1" THEN 49 ELSE IF ch = "b" THEN 98 ELSE IF ch = "p" THEN 112
    ELSE IF ch = "q" THEN 113 ELSE 120

\* a < b for Python strings
RECURSIVE StrLess(_, _)
StrLess(a, b) ==
    IF b = <<>> THEN FALSE
    ELSE IF a = <<>> THEN TRUE
    ELSE IF Head(a) # Head(b) THEN CharCode(Head(a)) < CharCode(Head(b))
    ELSE StrLess(Tail(a), Tail(b))

\* sorted(lst) for a list of strings
RECURSIVE SortedStrings(_)
SortedStrings(lst) ==
    IF lst = <<>> THEN <<>>
    ELSE LET least == CHOOSE i \in 1..Len(lst) :
                         \A j \in 1..Len(lst) :
                             ~StrLess(lst[j], lst[i]) /\ (lst[j] = lst[i] => i <= j)
         IN  <<lst[least]>> \o
             SortedStrings([k \in 1..(Len(lst) - 1) |-> IF k < least THEN lst[k] ELSE lst[k + 1]])

\* sub in name
IsSubstring(sub, name) ==
    \E i \in 0..(Len(name) - Len(sub)) : SubSeq(name, i + 1, i + Len(sub)) = sub

\* float(name) does not raise: over the letters of the model, a string of
\* digits.
is_numeric(name) == name # <<>> /\ \A i \in 1..Len(name) : name[i] = "1"

filter_roi_names(roi_names, keep_list, exclusion_list) ==
    LET not_excluded(name) ==
            /\ ~\E i \in 1..Len(exclusion_list) : IsSubstring(exclusion_list[i], name)
            /\ ~is_numeric(name)
        kept_name(name) == \E i \in 1..Len(keep_list) : IsSubstring(keep_list[i], name)
    IN  SelectSeq(SelectSeq(roi_names, not_excluded), kept_name)

\* ORGAN_MATCHES[organ]: the outcome is a KeyError for an unknown organ.
OrganMatches(table, organ) ==
    IF \E i \in 1..Len(table) : table[i].organ = organ
    THEN Ok((CHOOSE e \in {table[i] : i \in 1..Len(table)} : e.organ = organ).matches)
    ELSE Raise

\* find_organ_roi: None, or the one ROI name chosen for the organ.
find_organ_roi(table, organ, roi_lst) ==
    LET known == OrganMatches(table, organ)
        found == SelectSeq(SortedStrings(roi_lst), LAMBDA name : name \in known.val)
        shortest == CHOOSE i \in 1..Len(found) :
                        \A j \in 1..Len(found) :
                            /\ Len(found[i]) <= Len(found[j])
                            /\ (Len(found[j]) = Len(found[i]) => i <= j)
    IN  IF known.kind = "raise" THEN Raise
        ELSE IF found = <<>> THEN None
        ELSE IF Len(found) > 1 THEN Ok(found[shortest])
        ELSE Ok(found[1])

make_isotropic(spacings, a) == [resampled |-> a, spacings |-> spacings]

\* keyfilter(lambda name: name in names): the pairs of the dictionary whose
\* key is in names, in the order of the dictionary.
keyfilter_in(mask, chosen) ==
    SelectSeq(mask, LAMBDA e : \E i \in 1..Len(chosen) : chosen[i] = e[1])

preprocess_mask(c, mask, spacings, organ_ordering) ==
    LET mask_names == filter_roi_names([i \in 1..Len(mask) |-> mask[i][1]],
                                       c.ROI_KEEP_LIST, c.ROI_EXCLUSION_LIST)
        rois == [i \in 1..Len(organ_ordering) |->
                    find_organ_roi(c.ORGAN_MATCHES, organ_ordering[i], mask_names)]
        picked == SelectSeq(rois, LAMBDA r : r.kind # "none")
        chosen == [i \in 1..Len(picked) |-> picked[i].val]
        filtered == keyfilter_in(mask, chosen)
    IN  IF \E i \in 1..Len(rois) : rois[i].kind = "raise" THEN None
        ELSE IF Len(chosen) # Len(c.ORGAN_MATCHES) THEN None
        ELSE IF filtered = <<>> THEN None
        ELSE Ok([i \in 1..Len(filtered) |-> make_isotropic(spacings, filtered[i][2])])

\* ROI names that are kept and matched, one that is excluded, one that is
\* numeric and one that is not in the keep list.
RoiNames ==
    { <<"p">>, <<"p", "p">>, <<"b">>, <<"b", "x">>, <<"1">>, <<"q">> }

\* The constants module: tables of one and of two organs.
ConstantTables ==
    { [ORGAN_MATCHES |-> <<[organ |-> "prostate", matches |-> {<<"p">>, <<"p", "p">>}]>>,
       ROI_KEEP_LIST |-> << <<"p">>, <<"b">> >>,
       ROI_EXCLUSION_LIST |-> << <<"x">> >>],
      [ORGAN_MATCHES |-> <<[organ |-> "prostate", matches |-> {<<"p">>, <<"p", "p">>}],
                           [organ |-> "bladder", matches |-> {<<"b">>, <<"b", "x">>}]>>,
       ROI_KEEP_LIST |-> << <<"p">>, <<"b">> >>,
       ROI_EXCLUSION_LIST |-> << <<"x">> >>] }

\* Mask dictionaries of up to MaxMaskKeys ROI names, in every insertion
\* order, the i-th inserted mask being MaskOf(i).
MaskDicts ==
    { [i \in 1..Len(q) |-> <<q[i], MaskOf(i)>>] :
        q \in {r \in SeqsUpTo(RoiNames, MaxMaskKeys) :
                  \A i, j \in 1..Len(r) : r[i] = r[j] => i = j} }

OrganOrderings == SeqsUpTo({"prostate", "bladder", "rectum"}, MaxOrgans)

PrepSpacings == { <<1, 1, 1>>, <<1, 1, 2>> }

DoPreprocessMask ==
    /\ prep = <<>>
    /\ \E c \in ConstantTables, mask \in MaskDicts, spacings \in PrepSpacings,
          organ_ordering \in OrganOrderings :
        /\ prep' = [c |-> c, mask |-> mask, spacings |-> spacings,
                    organ_ordering |-> organ_ordering]
        /\ stacked' = preprocess_mask(c, mask, spacings, organ_ordering)
    /\ UNCHANGED <<dirVars, flipVars, sweepVars, purgeVars, statsVars, raceVars, pmapVars, curryVars>>

NextPrep == DoPreprocessMask

InitPrep ==
    /\ IdleDir /\ IdleFlip /\ IdleSweep /\ IdlePurge /\ IdleStats /\ IdleRace
    /\ IdlePmap /\ IdleCurry /\ IdlePrep

SpecPrep == InitPrep /\ [][NextPrep]_vars

\* organ_ordering names every organ of ORGAN_MATCHES once.
OrdersEveryOrgan ==
    /\ Len(prep.organ_ordering) = Len(prep.c.ORGAN_MATCHES)
    /\ \A i \in 1..Len(prep.c.ORGAN_MATCHES) :
          \E j \in 1..Len(prep.organ_ordering) :
              prep.organ_ordering[j] = prep.c.ORGAN_MATCHES[i].organ

\* The mask of the dictionary matched to the i-th organ of organ_ordering,
\* resampled.
MaskOfOrgan(i) ==
    LET mask_names == filter_roi_names([k \in 1..Len(prep.mask) |-> prep.mask[k][1]],
                                       prep.c.ROI_KEEP_LIST, prep.c.ROI_EXCLUSION_LIST)
        roi == find_organ_roi(prep.c.ORGAN_MATCHES, prep.organ_ordering[i], mask_names)
        pair == CHOOSE e \in {prep.mask[k] : k \in 1..Len(prep.mask)} : e[1] = roi.val
    IN  make_isotropic(prep.spacings, pair[2])

\* C26: when preprocess_mask returns an array, its channel i is the mask
\* matched to organ_ordering[i], whatever the insertion order of the mask
\* dictionary.
C26_ChannelsFollowOrganOrdering ==
    (prep # <<>> /\ stacked.kind = "ok" /\ OrdersEveryOrgan) =>
        /\ Len(stacked.val) = Len(prep.organ_ordering)
        /\ \A i \in 1..Len(prep.organ_ordering) : stacked.val[i] = MaskOfOrgan(i)

\* The dictionary holds the matched masks in the order of organ_ordering.
InsertedInOrganOrder ==
    LET mask_names == filter_roi_names([k \in 1..Len(prep.mask) |-> prep.mask[k][1]],
                                       prep.c.ROI_KEEP_LIST, prep.c.ROI_EXCLUSION_LIST)
        place(i) == CHOOSE k \in 1..Len(prep.mask) :
                        prep.mask[k][1] = find_organ_roi(prep.c.ORGAN_MATCHES,
                                              prep.organ_ordering[i], mask_names).val
    IN  \A i, j \in 1..Len(prep.organ_ordering) : i < j => place(i) < place(j)

\* For dictionaries inserted in the order of organ_ordering the statement
\* of C26 holds.
ChannelsFollowInsertionInOrganOrder ==
    (prep # <<>> /\ stacked.kind = "ok" /\ OrdersEveryOrgan /\ InsertedInOrganOrder) =>
        C26_ChannelsFollowOrganOrdering

=============================================================================
